---- MODULE Spec2Model ----
(***************************************************************************)
(* State-machine model of the voice proxy of src/services/                 *)
(* websocket_handler.py: VoiceProxyHandler.handle_connection, the upstream *)
(* connector _connect_to_azure and the relay _handle_message_forwarding    *)
(* with its two forwarding tasks and the executor threads that run the     *)
(* blocking calls of the client connection.                                *)
(*                                                                         *)
(* One client session is modelled in detail (Spec, FairSpec).  The client  *)
(* and the upstream service are the environment: they send, end and fail   *)
(* at any time.  Several sessions of one handler are modelled in less      *)
(* detail (MultiSpec), and the builders of the URL and of the session      *)
(* config are modelled as calls on their own (PureSpec).  The              *)
(* configuration object of src/config.py has its own specification         *)
(* (ConfigSpec), and so has the executor the sessions share (PoolSpec).    *)
(*                                                                         *)
(* Conventions                                                             *)
(*  - a value returned by client_ws.receive is a tuple: <<p>> for the text *)
(*    message p and <<>> for Python's None;                                *)
(*  - azureFrames and toClient record the send CALLS made on the upstream  *)
(*    and on the client connection, in call order, as a recording mock of  *)
(*    the connection would; a call that raises is recorded too;            *)
(*  - the except clause of handle_connection (lines 85-87) has no action:  *)
(*    every awaited call of the try body catches Exception itself          *)
(*    (lines 142, 269, 286, 297) and asyncio.wait does not re-raise the    *)
(*    exceptions of the tasks it waits for.                                *)
(***************************************************************************)
EXTENDS Integers, Sequences, FiniteSets, TLC

\* ---------------------------------------------------------------- bounds
MaxClientMsgs == 2
MaxUpMsgs == 2
\* Concurrent sessions, and messages relayed in each of them.
MaxSessions == 2
MaxRelayed == 1
\* Config messages built by the builders called on their own.
MaxBuilds == 2
\* Dicts handed out by as_dict.
MaxCopies == 2

Sessions == 1..MaxSessions

\* Text payloads the two peers may send; "" is the empty text message.
Payloads == {"", "a"}

\* ------------------------------------------------------------- constants
SESSION_UPDATE_TYPE == "session.update"
PROXY_CONNECTED_TYPE == "proxy.connected"
ERROR_TYPE == "error"
CONNECTED_TEXT == "Connected to Azure Voice API"
CONNECT_FAILED_TEXT == "Failed to connect to Azure Voice API"

None == <<>>
Msg(p) == <<p>>

\* ------------------------------------------------------- session config
DEFAULT_MODALITIES == <<"text", "audio">>
MODEL_DEPLOYMENT_NAME == "gpt-4o"

\* Numbers that are not integers are written as their decimal literal.
\* No agent profile is supplied for the session.
NoAgent == [kind |-> "None"]

\* The agent profiles a session may be given (agent_manager.get_agent): the
\* profile of the spec's scenario and one without a model of its own.
Agents ==
    { NoAgent,
      [model |-> "gpt-4", instructions |-> "Be terse", temperature |-> "0.2",
       max_tokens |-> 500],
      [instructions |-> "Test instructions", temperature |-> "0.8",
       max_tokens |-> 1000] }

\* No config message has been built.
NoConfig == [type |-> "None"]

\* _build_session_config giving the agent keys a null value when there is no
\* agent, instead of leaving them out.
BuildSessionConfig_NullAgentKeys ==
    [type |-> "session.update",
     session |->
       [modalities |-> DEFAULT_MODALITIES,
        model |-> "null",
        instructions |-> "null",
        temperature |-> "null",
        max_output_tokens |-> "null"]]

\* _build_session_config, lines 183-227: it takes no agent profile and
\* returns the same literal on every call.
BuildSessionConfig ==
    [type |-> "session.update",
     session |->
       [modalities |-> DEFAULT_MODALITIES,
        turn_detection |->
          [type |-> "azure_semantic_vad",
           threshold |-> "0.5",
           prefix_padding_ms |-> 200,
           silence_duration_ms |-> 200,
           remove_filler_words |-> TRUE,
           end_of_utterance_detection |->
             [model |-> "semantic_detection_v1",
              threshold |-> "0.3",
              timeout |-> "1.2"]],
        input_audio_noise_reduction |-> [type |-> "azure_deep_noise_suppression"],
        input_audio_echo_cancellation |-> [type |-> "server_echo_cancellation"],
        voice |->
          [name |-> "en-IN-AartiNeural",
           type |-> "azure-standard",
           temperature |-> 0]]]

\* The value of agent_config.get("model", config["model_deployment_name"]).
AgentModel(agent_config) ==
    IF "model" \in DOMAIN agent_config THEN agent_config.model
    ELSE MODEL_DEPLOYMENT_NAME

\* _add_local_agent_config replacing the session object by one that holds
\* the agent fields only.
AddLocalAgentConfig_Replace(config_message, agent_config) ==
    [config_message EXCEPT !.session =
        [model |-> AgentModel(agent_config),
         instructions |-> agent_config.instructions,
         temperature |-> agent_config.temperature,
         max_response_output_tokens |-> agent_config.max_tokens]]

\* _add_local_agent_config, lines 229-235: the session of config_message
\* with the four agent fields set.  No code of the handler calls it.
AddLocalAgentConfig(config_message, agent_config) ==
    [config_message EXCEPT !.session =
        [k \in DOMAIN config_message.session \cup
                 {"model", "instructions", "temperature",
                  "max_response_output_tokens"} |->
            CASE k = "model" -> AgentModel(agent_config)
              [] k = "instructions" -> agent_config.instructions
              [] k = "temperature" -> agent_config.temperature
              [] k = "max_response_output_tokens" -> agent_config.max_tokens
              [] OTHER -> config_message.session[k]]]

\* ------------------------------------------------------- configuration
\* The values of src/config.py the connector reads.  agent_name is
\* os.getenv("AGENT_NAME"), None when the variable is not set: it is kept as
\* Msg(name) or None; the other values are strings with "" as default.
Configs ==
    { [azure_ai_resource_name |-> "test-resource",
       azure_ai_project_name |-> "test-project",
       agent_name |-> n,
       agent_id |-> i,
       model_deployment_name |-> MODEL_DEPLOYMENT_NAME] :
         n \in {None, Msg("voice-bot")}, i \in {"", "static-agent-123"} }

\* The configuration with nothing set beyond the resource and the project.
PlainConfig == CHOOSE c \in Configs : c.agent_name = None /\ c.agent_id = ""

\* What an f-string makes of a configuration value: str(None) is "None".
Str(v) == IF v = None THEN "None" ELSE v[1]

\* ------------------------------------------------------------------ URL
AZURE_VOICE_API_VERSION == "2025-10-01"
AZURE_COGNITIVE_SERVICES_DOMAIN == "cognitiveservices.azure.com"
VOICE_AGENT_ENDPOINT == "voice-agent/realtime"

\* The values uuid.uuid4() may return.
RequestIds == {"uuid-1", "uuid-2"}

\* The agents a session may name: the profiles of Agents, which are local
\* (no is_azure_agent), and a remote agent of the agent service.
RemoteAgent == [is_azure_agent |-> TRUE, id |-> "agent-123", model |-> "gpt-4o"]
UrlAgents == Agents \cup {RemoteAgent}

IsRemote(a) == "is_azure_agent" \in DOMAIN a /\ a.is_azure_agent

\* A URL is kept as its host, its path and the sequence of its query
\* parameters, each <<name, value>>, in the order they are written.
NoUrl == [host |-> <<>>, path |-> "None", query |-> <<>>]

\* _build_base_azure_url, lines 153-163.
BuildBaseAzureUrl(cfg, client_request_id) ==
    [host |-> <<cfg.azure_ai_resource_name, AZURE_COGNITIVE_SERVICES_DOMAIN>>,
     path |-> VOICE_AGENT_ENDPOINT,
     query |-> << <<"api-version", AZURE_VOICE_API_VERSION>>,
                  <<"x-ms-client-request-id", client_request_id>> >>]

\* _build_azure_url, lines 146-149: it takes no agent and appends the
\* configured agent name and project name to the base URL.
BuildAzureUrl(cfg, client_request_id) ==
    LET base_url == BuildBaseAzureUrl(cfg, client_request_id)
    IN [base_url EXCEPT !.query =
          @ \o << <<"agent-name", Str(cfg.agent_name)>>,
                  <<"agent-project-name", cfg.azure_ai_project_name>> >>]

\* _build_agent_specific_url, lines 165-171.  No code of the handler calls
\* it.
BuildAgentSpecificUrl(cfg, base_url, agent_id, agent_config) ==
    IF IsRemote(agent_config)
      THEN [base_url EXCEPT !.query =
              @ \o << <<"agent-id", agent_id>>,
                      <<"agent-project-name", cfg.azure_ai_project_name>> >>]
      ELSE [base_url EXCEPT !.query =
              @ \o << <<"model", AgentModel(agent_config)>> >>]

\* The URL has the query parameter name=value.
HasParam(url, name, value) ==
    \E i \in 1..Len(url.query) : url.query[i] = <<name, value>>

\* The URL has a query parameter of that name.
HasKey(url, name) ==
    \E i \in 1..Len(url.query) : url.query[i][1] = name

\* ------------------------------------------------------- connector output
\* The bearer tokens a credential may return.
Tokens == {"token-1", "token-2"}

\* A line written to stdout (print) or to the log (logger.info), with the URL
\* it is formatted with (NoUrl when it has none).
Out(channel, text, arg) == [channel |-> channel, text |-> text, arg |-> arg]

\* lines 121-134: what the connector prints and logs between the token
\* request and the handshake, for one token.
ConnectorOutput(client_id, token, url) ==
    IF client_id
      THEN << Out("stdout", token, NoUrl),
              Out("log", "Obtained agent access token", NoUrl) >>
      ELSE << Out("log", "Obtained agent access token", NoUrl),
              Out("log", "Connecting to Azure Voice API at URL: %s", url) >>

\* ------------------------------------------------------------------- JSON
\* A JSON value of the messages the proxy writes: a string or an object, an
\* object being its members in order.
JStr(text) == [kind |-> "str", s |-> text]
JObj(members) == [kind |-> "obj", members |-> members]

\* lines 78-81 and 302: the two messages handed to _send_message.
ConnectedMessage ==
    JObj(<<<<"type", JStr(PROXY_CONNECTED_TYPE)>>, <<"message", JStr(CONNECTED_TEXT)>>>>)
ErrorMessage(error_message) ==
    JObj(<<<<"type", JStr(ERROR_TYPE)>>,
           <<"error", JObj(<<<<"message", JStr(error_message)>>>>)>>>>)

\* A JSON text is its sequence of tokens.
Punct(c) == [t |-> "punct", v |-> c]
Quoted(text) == [t |-> "string", v |-> text]

RECURSIVE Dumps(_)
RECURSIVE DumpMembers(_)
\* json.dumps of a value.
Dumps(v) ==
    IF v.kind = "str"
      THEN <<Quoted(v.s)>>
      ELSE <<Punct("{")>> \o DumpMembers(v.members) \o <<Punct("}")>>
DumpMembers(ms) ==
    IF ms = <<>>
      THEN <<>>
      ELSE <<Quoted(Head(ms)[1]), Punct(":")>> \o Dumps(Head(ms)[2])
           \o (IF Len(ms) > 1 THEN <<Punct(",")>> ELSE <<>>)
           \o DumpMembers(Tail(ms))

RECURSIVE ParseValue(_, _)
RECURSIVE ParseMembers(_, _, _)
\* json.loads: the value that starts at token i, and the position after it.
ParseValue(toks, i) ==
    IF toks[i].t = "string"
      THEN [val |-> JStr(toks[i].v), next |-> i + 1]
      ELSE ParseMembers(toks, i + 1, <<>>)
ParseMembers(toks, i, acc) ==
    IF toks[i] = Punct("}")
      THEN [val |-> JObj(acc), next |-> i + 1]
      ELSE LET r == ParseValue(toks, i + 2)
               j == IF toks[r.next] = Punct(",") THEN r.next + 1 ELSE r.next
           IN  ParseMembers(toks, j, Append(acc, <<toks[i].v, r.val>>))
Loads(toks) == ParseValue(toks, 1).val

\* line 295: json.dumps(message).
JsonDumpsMessage(message) == Dumps(message)

\* The call made directly in the coroutine, in the thread of the event loop.
RunInExecutor_Inline == "loop"

\* run_in_executor(None, f, ...) at lines 261, 281 and 292: f runs in a
\* thread of the default executor, not in the thread of the event loop.
RunInExecutor == "worker"

\* lines 289-296: _send_message hands ws.send to the executor with the
\* JSON text of the message.
SendMessageCall(message) ==
    [op |-> "send_message", on |-> RunInExecutor, message |-> message,
     json |-> JsonDumpsMessage(message)]
\* lines 261-264 and 281-285: the calls of the two relay loops.
ReceiveCall == [op |-> "receive", on |-> RunInExecutor]
SendCall(message) == [op |-> "send", on |-> RunInExecutor, text |-> message]

\* lines 121-133: the credential objects left open by the token request.  The
\* managed-identity credential is created in an "async with", which closes
\* it on the way out, with or without an exception; the default credential
\* is created in the call expression of line 131 and no close follows.
CredsAfterTokenRequest(open, client_id) ==
    IF client_id
      THEN (open \cup {"managed"}) \ {"managed"}
      ELSE open \cup {"default"}

\* No pair of connector runs has been observed.
NoRuns == [tokens |-> <<>>, out |-> <<>>]

\* ------------------------------------------------- the configuration object
\* src/config.py: Config, built once from the environment when the module is
\* imported (line 94) and read through __getitem__, get and as_dict.  Python
\* values are tagged; None is the value of an unset variable and of a
\* missing key.

DEFAULT_PORT == 8000
DEFAULT_HOST == "0.0.0.0"
DEFAULT_REGION == "swedencentral"
DEFAULT_API_VERSION == "2024-07-18"

PyInt(n) == <<"int", n>>
PyStr(text) == <<"str", text>>
PyBool(b) == <<"bool", b>>

\* The text of a number is its characters.
Digits == <<"0", "1", "2", "3", "4", "5", "6", "7", "8", "9">>
IsDigit(c) == \E d \in 1..10 : Digits[d] = c
DigitValue(c) == (CHOOSE d \in 1..10 : Digits[d] = c) - 1

RECURSIVE DecimalText(_)
\* str(n) of a natural number.
DecimalText(n) ==
    IF n < 10
      THEN <<Digits[n + 1]>>
      ELSE Append(DecimalText(n \div 10), Digits[(n % 10) + 1])

\* int(text) raises ValueError unless the text is a decimal number.
IsDecimal(chars) == chars # <<>> /\ \A i \in 1..Len(chars) : IsDigit(chars[i])

RECURSIVE IntOf(_)
IntOf(chars) ==
    IF chars = <<>>
      THEN 0
      ELSE IntOf(SubSeq(chars, 1, Len(chars) - 1)) * 10 + DigitValue(chars[Len(chars)])

\* str.lower on the texts a boolean variable is given.
Lower(text) ==
    CASE text = "True" -> "true"
      [] text = "False" -> "false"
      [] OTHER -> text

\* The environments the process may be started in: a variable is unset
\* (None) or has a text; the text of PORT is kept by character.
Envs ==
    [PORT : {None, Msg(<<"9", "0", "0", "0">>), Msg(<<"a", "b", "c">>)},
     HOST : {None, Msg("localhost")},
     AZURE_AI_REGION : {None, Msg("westus")},
     AGENT_NAME : {None, Msg("voice-bot")},
     USE_AZURE_AI_AGENTS : {None, Msg("True")}]
NoEnv == [PORT |-> None, HOST |-> None, AZURE_AI_REGION |-> None,
          AGENT_NAME |-> None, USE_AZURE_AI_AGENTS |-> None]

\* os.getenv with the default supplied in place of the value.
Getenv_DefaultOnly(env, name, default) == default

\* os.getenv(name, default).
Getenv(env, name, default) ==
    IF env[name] = None THEN default ELSE PyStr(env[name][1])

\* _parse_bool_env, lines 76-78, with default False.
ParseBoolEnv(env, name) ==
    PyBool(Lower(Getenv(env, name, PyStr("False"))[2]) = "true")

\* The text handed to int() at line 46.
PortText(env) == Getenv(env, "PORT", PyStr(DecimalText(DEFAULT_PORT)))[2]

\* _load_config, lines 37-74, for the keys of the model.
LoadConfig(env) ==
    [azure_ai_region |-> Getenv(env, "AZURE_AI_REGION", PyStr(DEFAULT_REGION)),
     use_azure_ai_agents |-> ParseBoolEnv(env, "USE_AZURE_AI_AGENTS"),
     port |-> PyInt(IntOf(PortText(env))),
     host |-> Getenv(env, "HOST", PyStr(DEFAULT_HOST)),
     api_version |-> PyStr(DEFAULT_API_VERSION),
     agent_name |-> Getenv(env, "AGENT_NAME", None)]

\* dict.get(key, default).
DictGet(d, key, default) == IF key \in DOMAIN d THEN d[key] ELSE default

\* Config.__getitem__, lines 80-82.
GetItem(d, key) == DictGet(d, key, None)

\* Config.get, lines 84-86.
Get(d, key, default) == DictGet(d, key, default)

\* d[key] = value and del d[key] on a dict.
DictSet(d, key, value) ==
    [k \in DOMAIN d \cup {key} |-> IF k = key THEN value ELSE d[k]]
DictDel(d, key) == [k \in DOMAIN d \ {key} |-> d[k]]

\* Config._config is the first dict object created.
ConfigRef == 1

\* as_dict returning self._config itself.
AsDictRef_Alias(objs) == ConfigRef

\* Config.as_dict, lines 88-91: dict.copy() creates a new dict object with
\* the same items; the reference returned is the new object's.
AsDictRef(objs) == Len(objs) + 1

\* The objects in memory after the copy.
AsDictObjects(objs) == Append(objs, objs[ConfigRef])

\* The keys and defaults the callers read with, and what they write into a
\* returned dict.
QueryKeys == {"port", "host", "agent_name", "nonexistent_key"}
QueryDefaults == {None, PyInt(0), PyStr("default")}
WrittenValue == PyInt(9999)
NoRead == [op |-> "none", key |-> "", default |-> None, result |-> None]


VARIABLES
    apiKey,        \* config.get("azure_openai_api_key") is truthy
    clientId,      \* config.get("client_id") is truthy
    agent,         \* the agent profile supplied for the session, or NoAgent
    pc,            \* position of handle_connection
    azure_ws,      \* handle_connection's local azure_ws: "None" or "conn"
    connFail,      \* why _connect_to_azure returned None, "none" if it did not
    cred,          \* credential used for the token request
    credsOpen,     \* credential objects created and not closed
    tokenReqs,     \* number of get_token calls
    upOpened,      \* number of upstream sockets opened by websockets.connect
    sentConfig,    \* the config message encoded into the session.update frame
    closeCalls,    \* number of azure_ws.close() calls
    upState,       \* upstream socket: absent, open, closed, error, closed_local
    azureFrames,   \* send calls made on the upstream connection
    toClient,      \* send calls made on the client connection
    clientCalls,   \* calls of client_ws methods: which, where it ran, with what
    clientSent,    \* everything the client has sent (None = end of stream)
    rxCount,       \* how many items of clientSent receive() has returned
    clientState,   \* open, ended (end of stream sent), broken
    upSent,        \* everything the upstream has sent
    upRxCount,     \* how many items of upSent the async iterator has yielded
    c2a,           \* task _forward_client_to_azure
    a2c,           \* task _forward_azure_to_client
    rxThread,      \* executor call client_ws.receive of the c2a task
    rxResult,      \* its result
    txThread,      \* executor call client_ws.send of the a2c task
    txMsg,         \* its argument
    taskExc,       \* the calls of the two tasks that have raised
    \* Several sessions served by one handler (see "concurrent sessions").
    mSess,         \* per session: the locals of its handle_connection call
    mConns,        \* the upstream connections, by connection id
    mClient,       \* per session: the frames sent to its client
    mClientOpen,   \* per session: its client has not ended
    \* The builders called on their own (see "builders").
    config,        \* the configuration values
    urlAgent,      \* the agent of the session the URL was built for
    azure_url,     \* the URL returned by _build_azure_url, NoUrl before
    heap,          \* the objects in memory: heap[r] is the object r refers to
    built,         \* the config messages built so far, with their input
    sentJson,      \* the JSON texts of the config messages sent so far
    tokenRuns,     \* two runs of the connector that differ in the token
    \* The configuration object (see "the configuration object").
    environ,       \* os.environ when the process starts
    confState,     \* import of src/config.py: unloaded, ready, error
    dicts,         \* the dict objects in memory: dicts[r] is the dict r refers to
    returned,      \* the references as_dict has returned
    lastRead,      \* the last config[key] or config.get since the last write
    \* Sessions sharing the executor (see "the worker pool").
    wTask,         \* per session: its two relay tasks
    wQueue,        \* the calls submitted to the executor and not started
    wRunning,      \* the calls running in a thread of the pool
    wClientIn,     \* per session: messages its client has sent
    wRx,           \* per session: messages client_ws.receive has returned
    wUp,           \* per session: messages its upstream has sent
    wTaken,        \* per session: upstream messages the a2c task has received
    wDelivered     \* per session: messages client_ws.send has delivered

vars == <<apiKey, clientId, agent, pc, azure_ws, connFail, cred, credsOpen, tokenReqs,
          upOpened, sentConfig, closeCalls, upState, azureFrames, toClient, clientCalls,
          clientSent, rxCount, clientState, upSent, upRxCount, c2a, a2c,
          rxThread, rxResult, txThread, txMsg, taskExc,
          mSess, mConns, mClient, mClientOpen,
          config, urlAgent, azure_url, heap, built, sentJson, tokenRuns,
          environ, confState, dicts, returned, lastRead,
          wTask, wQueue, wRunning, wClientIn, wRx, wUp, wTaken, wDelivered>>

pureVars == <<config, urlAgent, azure_url, heap, built, sentJson, tokenRuns>>

multiVars == <<mSess, mConns, mClient, mClientOpen>>

confVars == <<environ, confState, dicts, returned, lastRead>>
poolVars == <<wTask, wQueue, wRunning, wClientIn, wRx, wUp, wTaken, wDelivered>>
\* What no step of a session or of a builder touches.
sideVars == <<confVars, poolVars>>

cfgVars == <<apiKey, clientId, agent>>
connVars == <<connFail, cred, credsOpen, tokenReqs, upOpened, sentConfig>>
clientEnv == <<clientSent, clientState>>
upEnv == <<upSent>>
taskVars == <<c2a, a2c, rxThread, rxResult, txThread, txMsg, rxCount, upRxCount,
              taskExc>>

\* A frame as recorded on a connection.
ProxyFrame(t, b) == [origin |-> "proxy", type |-> t, body |-> b]
RelayFrame(p) == [origin |-> "relay", type |-> "opaque", body |-> p]

\* The module-level list DEFAULT_MODALITIES (line 29) is the first object in
\* memory.
ModalitiesRef == 1
InitHeap == <<[kind |-> "list", val |-> DEFAULT_MODALITIES]>>

\* Builders: nothing has been built.
PureIdle ==
    /\ urlAgent = NoAgent
    /\ azure_url = NoUrl
    /\ heap = InitHeap
    /\ built = <<>>
    /\ sentJson = <<>>
    /\ tokenRuns = NoRuns

\* Connection ids: the k-th connection opened by the call of session s has
\* the id s + (k - 1) * MaxSessions; ids for two connections per session are
\* kept.
ConnSlots == 1..(2 * MaxSessions)
AbsentConn == [owner |-> 0, auth |-> 0, state |-> "absent", sends |-> 0,
               closes |-> 0, users |-> {}]

\* Concurrent sessions: no call of handle_connection has taken a step.
MultiInit ==
    /\ mSess = [s \in Sessions |-> [pc |-> "connect", conn |-> 0, azure_ws |-> 0,
                                tokenReqs |-> 0, token |-> 0, cred |-> "none"]]
    /\ mConns = [c \in ConnSlots |-> AbsentConn]
    /\ mClient = [s \in Sessions |-> <<>>]
    /\ mClientOpen = [s \in Sessions |-> TRUE]

\* No session has entered its relay.
PoolIdle ==
    /\ wTask = [s \in Sessions |-> [c2a |-> "none", a2c |-> "none"]]
    /\ wQueue = <<>>
    /\ wRunning = {}
    /\ wClientIn = [s \in Sessions |-> 0]
    /\ wRx = [s \in Sessions |-> 0]
    /\ wUp = [s \in Sessions |-> 0]
    /\ wTaken = [s \in Sessions |-> 0]
    /\ wDelivered = [s \in Sessions |-> 0]

\* Nothing has been imported.
ConfIdle ==
    /\ confState = "unloaded"
    /\ dicts = <<>>
    /\ returned = {}
    /\ lastRead = NoRead

\* The configuration and the pool are left alone.
SideIdle == environ = NoEnv /\ ConfIdle /\ PoolIdle


Init ==
    /\ MultiInit
    /\ PureIdle
    /\ SideIdle
    /\ config = PlainConfig
    /\ apiKey \in BOOLEAN
    /\ clientId \in BOOLEAN
    /\ agent \in Agents
    /\ sentConfig = NoConfig
    /\ taskExc = {}
    /\ pc = "connect"
    /\ azure_ws = "None"
    /\ connFail = "none"
    /\ cred = "none"
    /\ credsOpen = {}
    /\ tokenReqs = 0
    /\ upOpened = 0
    /\ closeCalls = 0
    /\ upState = "absent"
    /\ azureFrames = <<>>
    /\ toClient = <<>>
    /\ clientCalls = {}
    /\ clientSent = <<>>
    /\ rxCount = 0
    /\ clientState = "open"
    /\ upSent = <<>>
    /\ upRxCount = 0
    /\ c2a = "none"
    /\ a2c = "none"
    /\ rxThread = "none"
    /\ rxResult = [exc |-> FALSE, val |-> None]
    /\ txThread = "none"
    /\ txMsg = ""

\* ------------------------------------------------------------ environment
ClientSends ==
    /\ clientState = "open"
    /\ Len(clientSent) < MaxClientMsgs
    /\ \E p \in Payloads : clientSent' = Append(clientSent, Msg(p))
    /\ UNCHANGED <<sideVars, pureVars, multiVars, cfgVars, pc, azure_ws, connVars, closeCalls, upState,
                   azureFrames, toClient, clientCalls, clientState, upEnv, taskVars>>

ClientEnds ==
    /\ clientState = "open"
    /\ clientSent' = Append(clientSent, None)
    /\ clientState' = "ended"
    /\ UNCHANGED <<sideVars, pureVars, multiVars, cfgVars, pc, azure_ws, connVars, closeCalls, upState,
                   azureFrames, toClient, clientCalls, upEnv, taskVars>>

ClientBreaks ==
    /\ clientState \in {"open", "ended"}
    /\ clientState' = "broken"
    /\ UNCHANGED <<sideVars, pureVars, multiVars, cfgVars, pc, azure_ws, connVars, closeCalls, upState,
                   azureFrames, toClient, clientCalls, clientSent, upEnv, taskVars>>

UpstreamSends ==
    /\ upState = "open"
    /\ Len(upSent) < MaxUpMsgs
    /\ \E p \in Payloads : upSent' = Append(upSent, p)
    /\ UNCHANGED <<sideVars, pureVars, multiVars, cfgVars, pc, azure_ws, connVars, closeCalls, upState,
                   azureFrames, toClient, clientCalls, clientEnv, taskVars>>

UpstreamCloses ==
    /\ upState = "open"
    /\ upState' = "closed"
    /\ UNCHANGED <<sideVars, pureVars, multiVars, cfgVars, pc, azure_ws, connVars, closeCalls,
                   azureFrames, toClient, clientCalls, clientEnv, upEnv, taskVars>>

UpstreamFails ==
    /\ upState = "open"
    /\ upState' = "error"
    /\ UNCHANGED <<sideVars, pureVars, multiVars, cfgVars, pc, azure_ws, connVars, closeCalls,
                   azureFrames, toClient, clientCalls, clientEnv, upEnv, taskVars>>

\* The connector without the API-key test of lines 116-119: a missing key
\* does not stop the connection attempt.
CheckApiKey_NoCheck ==
    /\ pc = "connect"
    /\ pc' = "get_token"
    /\ UNCHANGED <<sideVars, pureVars, multiVars, cfgVars, azure_ws, connVars, closeCalls, upState,
                   azureFrames, toClient, clientCalls, clientEnv, upEnv, taskVars>>

\* The connector testing the API key only after the token request.
CheckApiKey_AfterToken ==
    /\ pc = "connect"
    /\ cred' = IF clientId THEN "managed" ELSE "default"
    /\ credsOpen' = CredsAfterTokenRequest(credsOpen, clientId)
    /\ tokenReqs' = tokenReqs + 1
    /\ IF apiKey
         THEN /\ pc' = "ws_connect"
              /\ UNCHANGED connFail
         ELSE /\ pc' = "send_error"
              /\ connFail' = "no_api_key"
    /\ UNCHANGED <<sideVars, pureVars, multiVars, cfgVars, azure_ws, upOpened, sentConfig,
                   closeCalls, upState, azureFrames, toClient, clientCalls, clientEnv, upEnv,
                   taskVars>>

\* -------------------------------------------------------------- connector
\* _connect_to_azure, lines 114-119: the URL is built, then the API key is
\* checked; a missing key returns None.
CheckApiKey ==
    /\ pc = "connect"
    /\ IF apiKey
         THEN /\ pc' = "get_token"
              /\ UNCHANGED connFail
         ELSE /\ pc' = "send_error"
              /\ connFail' = "no_api_key"
    /\ UNCHANGED <<sideVars, pureVars, multiVars, cfgVars, azure_ws, cred, credsOpen, tokenReqs, upOpened, sentConfig,
                   closeCalls, upState, azureFrames, toClient, clientCalls, clientEnv, upEnv,
                   taskVars>>

\* lines 120-133: one get_token call on the managed-identity credential when
\* a client id is configured, on the default credential otherwise.
GetToken ==
    /\ pc = "get_token"
    /\ cred' = IF clientId THEN "managed" ELSE "default"
    /\ credsOpen' = CredsAfterTokenRequest(credsOpen, clientId)
    /\ tokenReqs' = tokenReqs + 1
    /\ \E ok \in BOOLEAN :
         IF ok
           THEN /\ pc' = "ws_connect"
                /\ UNCHANGED connFail
           ELSE /\ pc' = "send_error"
                /\ connFail' = "token"
    /\ UNCHANGED <<sideVars, pureVars, multiVars, cfgVars, azure_ws, upOpened, sentConfig, closeCalls, upState,
                   azureFrames, toClient, clientCalls, clientEnv, upEnv, taskVars>>

\* The connector trying again after a failed handshake: it goes back to the
\* token request instead of returning None.
WsConnect_Retry ==
    /\ pc = "ws_connect"
    /\ \E ok \in BOOLEAN :
         IF ok
           THEN /\ pc' = "send_init"
                /\ upState' = "open"
                /\ upOpened' = upOpened + 1
           ELSE /\ pc' = "get_token"
                /\ UNCHANGED <<upState, upOpened>>
    /\ UNCHANGED <<sideVars, pureVars, multiVars, cfgVars, azure_ws, connFail, cred, credsOpen, tokenReqs, sentConfig,
                   closeCalls, azureFrames, toClient, clientCalls, clientEnv, upEnv, taskVars>>

\* line 135: websockets.connect.
WsConnect ==
    /\ pc = "ws_connect"
    /\ \E ok \in BOOLEAN :
         IF ok
           THEN /\ pc' = "send_init"
                /\ upState' = "open"
                /\ upOpened' = upOpened + 1
                /\ UNCHANGED connFail
           ELSE /\ pc' = "send_error"
                /\ connFail' = "handshake"
                /\ UNCHANGED <<upState, upOpened>>
    /\ UNCHANGED <<sideVars, pureVars, multiVars, cfgVars, azure_ws, cred, credsOpen, tokenReqs, sentConfig, closeCalls,
                   azureFrames, toClient, clientCalls, clientEnv, upEnv, taskVars>>

\* The connector without the call of _send_initial_config at line 138: the
\* connection is returned with no session.update sent on it.
SendInitialConfig_Skipped ==
    /\ pc = "send_init"
    /\ azure_ws' = "conn"
    /\ pc' = "send_connected"
    /\ UNCHANGED <<sideVars, pureVars, multiVars, cfgVars, connVars, closeCalls, upState, azureFrames,
                   toClient, clientCalls, clientEnv, upEnv, taskVars>>

\* lines 138-144 and 173-181: the session.update frame is sent; when the send
\* raises, the except clause returns None and the socket opened at line 135
\* is dropped without a close.
SendInitialConfig ==
    /\ pc = "send_init"
    /\ sentConfig' = BuildSessionConfig
    /\ azureFrames' = Append(azureFrames,
                             ProxyFrame(BuildSessionConfig.type, SESSION_UPDATE_TYPE))
    /\ IF upState = "open"
         THEN /\ azure_ws' = "conn"
              /\ pc' = "send_connected"
              /\ UNCHANGED connFail
         ELSE /\ azure_ws' = "None"
              /\ pc' = "send_error"
              /\ connFail' = "init_send"
    /\ UNCHANGED <<sideVars, pureVars, multiVars, cfgVars, cred, credsOpen, tokenReqs, upOpened, closeCalls, upState,
                   toClient, clientCalls, clientEnv, upEnv, taskVars>>

\* SendError with the "return" of line 76 missing: the handler goes on to the
\* confirmation after it has reported the failure.
SendError_NoReturn ==
    /\ pc = "send_error"
    /\ toClient' = Append(toClient, ProxyFrame(ERROR_TYPE, CONNECT_FAILED_TEXT))
    /\ clientCalls' = clientCalls \cup {SendMessageCall(ErrorMessage(CONNECT_FAILED_TEXT))}
    /\ pc' = "send_connected"
    /\ UNCHANGED <<sideVars, pureVars, multiVars, cfgVars, azure_ws, connVars, closeCalls, upState,
                   azureFrames, clientEnv, upEnv, taskVars>>

\* The failure of the connector reported twice: by the branch of lines 74-76
\* and once more on the way out.
SendError_Twice ==
    /\ pc = "send_error"
    /\ toClient' = toClient \o <<ProxyFrame(ERROR_TYPE, CONNECT_FAILED_TEXT),
                                 ProxyFrame(ERROR_TYPE, CONNECT_FAILED_TEXT)>>
    /\ clientCalls' = clientCalls \cup {SendMessageCall(ErrorMessage(CONNECT_FAILED_TEXT))}
    /\ pc' = "finally"
    /\ UNCHANGED <<sideVars, pureVars, multiVars, cfgVars, azure_ws, connVars, closeCalls, upState,
                   azureFrames, clientEnv, upEnv, taskVars>>

\* ---------------------------------------------------------------- handler
\* lines 74-76 with _send_error / _send_message (289-302): the error frame is
\* sent, a failing send is swallowed, and the handler returns through finally.
SendError ==
    /\ pc = "send_error"
    /\ toClient' = Append(toClient, ProxyFrame(ERROR_TYPE, CONNECT_FAILED_TEXT))
    /\ clientCalls' = clientCalls \cup {SendMessageCall(ErrorMessage(CONNECT_FAILED_TEXT))}
    /\ pc' = "finally"
    /\ UNCHANGED <<sideVars, pureVars, multiVars, cfgVars, azure_ws, connVars, closeCalls, upState,
                   azureFrames, clientEnv, upEnv, taskVars>>

\* The handler without the _send_message call of lines 78-81: the relay is
\* entered with no confirmation sent.
SendConnected_Skipped ==
    /\ pc = "send_connected"
    /\ pc' = "relay_start"
    /\ UNCHANGED <<sideVars, pureVars, multiVars, cfgVars, azure_ws, connVars, closeCalls, upState,
                   azureFrames, toClient, clientCalls, clientEnv, upEnv, taskVars>>

\* lines 78-81.
SendConnected ==
    /\ pc = "send_connected"
    /\ toClient' = Append(toClient, ProxyFrame(PROXY_CONNECTED_TYPE, CONNECTED_TEXT))
    /\ clientCalls' = clientCalls \cup {SendMessageCall(ConnectedMessage)}
    /\ pc' = "relay_start"
    /\ UNCHANGED <<sideVars, pureVars, multiVars, cfgVars, azure_ws, connVars, closeCalls, upState,
                   azureFrames, clientEnv, upEnv, taskVars>>

\* lines 243-248: both tasks are created and the handler suspends in
\* asyncio.wait; each task runs to its first await: the c2a task hands
\* client_ws.receive to the executor, the a2c task waits for an upstream
\* message.
RelayStart ==
    /\ pc = "relay_start"
    /\ c2a' = "await_recv"
    /\ rxThread' = "queued"
    /\ a2c' = "await_up"
    /\ pc' = "relay_wait"
    /\ UNCHANGED <<sideVars, pureVars, multiVars, cfgVars, azure_ws, connVars, closeCalls, upState,
                   azureFrames, toClient, clientCalls, clientEnv, upEnv, rxResult,
                   txThread, txMsg, rxCount, upRxCount,
                   taskExc>>

\* task.cancel() on a task that is not done: the task is resumed with
\* CancelledError, which its "except Exception" does not catch.
CancelTask(t) == IF t = "done" THEN "done" ELSE "cancelled"

\* Cancelling the asyncio future of run_in_executor cancels the executor's
\* future only while its call has not started; a call that is running in a
\* worker thread keeps running.
CancelExecutorCall(th, running) == IF th \in running THEN th ELSE "none"

\* RelayWait with return_when=ALL_COMPLETED: the relay returns only when
\* both tasks are done.
RelayWait_AllCompleted ==
    /\ pc = "relay_wait"
    /\ c2a = "done" /\ a2c = "done"
    /\ pc' = "finally"
    /\ UNCHANGED <<sideVars, pureVars, multiVars, cfgVars, azure_ws, connVars, closeCalls, upState,
                   azureFrames, toClient, clientCalls, clientEnv, upEnv, taskVars>>

\* RelayWait without the cancel loop of lines 250-251: the relay returns and
\* leaves the pending task running.
RelayWait_NoCancel ==
    /\ pc = "relay_wait"
    /\ c2a = "done" \/ a2c = "done"
    /\ pc' = "finally"
    /\ UNCHANGED <<sideVars, pureVars, multiVars, cfgVars, azure_ws, connVars, closeCalls, upState,
                   azureFrames, toClient, clientCalls, clientEnv, upEnv, taskVars>>

\* RelayWait with a timeout on asyncio.wait: the wait may return with no task
\* done, and the relay cancels both tasks and returns.
RelayWait_IdleTimeout ==
    /\ pc = "relay_wait"
    /\ c2a' = CancelTask(c2a)
    /\ a2c' = CancelTask(a2c)
    /\ rxThread' = IF c2a = "done" THEN rxThread
                   ELSE CancelExecutorCall(rxThread, {"blocked"})
    /\ txThread' = IF a2c = "done" THEN txThread
                   ELSE CancelExecutorCall(txThread, {"running"})
    /\ pc' = "finally"
    /\ UNCHANGED <<sideVars, pureVars, multiVars, cfgVars, azure_ws, connVars, closeCalls, upState,
                   azureFrames, toClient, clientCalls, clientEnv, upEnv, rxResult, txMsg,
                   rxCount, upRxCount,
                   taskExc>>

\* lines 248-251: asyncio.wait returns once a task is done, the pending
\* tasks are cancelled and the relay returns without awaiting them.
RelayWait ==
    /\ pc = "relay_wait"
    /\ c2a = "done" \/ a2c = "done"
    /\ c2a' = CancelTask(c2a)
    /\ a2c' = CancelTask(a2c)
    /\ rxThread' = IF c2a = "done" THEN rxThread
                   ELSE CancelExecutorCall(rxThread, {"blocked"})
    /\ txThread' = IF a2c = "done" THEN txThread
                   ELSE CancelExecutorCall(txThread, {"running"})
    /\ pc' = "finally"
    /\ UNCHANGED <<sideVars, pureVars, multiVars, cfgVars, azure_ws, connVars, closeCalls, upState,
                   azureFrames, toClient, clientCalls, clientEnv, upEnv, rxResult, txMsg,
                   rxCount, upRxCount,
                   taskExc>>

\* Finally closing only a connection that still looks open
\* ("if azure_ws and the connection is open").
Finally_CloseIfOpen ==
    /\ pc = "finally"
    /\ IF azure_ws = "conn" /\ upState = "open"
         THEN /\ closeCalls' = closeCalls + 1
              /\ \E ok \in BOOLEAN :
                   IF ok
                     THEN /\ pc' = "done"
                          /\ upState' = "closed_local"
                     ELSE /\ pc' = "raised"
                          /\ UNCHANGED upState
         ELSE /\ pc' = "done"
              /\ UNCHANGED <<closeCalls, upState>>
    /\ UNCHANGED <<sideVars, pureVars, multiVars, cfgVars, azure_ws, connVars, azureFrames, toClient, clientCalls,
                   clientEnv, upEnv, taskVars>>

\* lines 89-91: azure_ws.close() is called when azure_ws is set; an exception
\* of close() leaves handle_connection.
Finally ==
    /\ pc = "finally"
    /\ IF azure_ws = "conn"
         THEN /\ closeCalls' = closeCalls + 1
              /\ \E ok \in BOOLEAN :
                   IF ok
                     THEN /\ pc' = "done"
                          /\ upState' = IF upState = "open" THEN "closed_local"
                                        ELSE upState
                     ELSE /\ pc' = "raised"
                          /\ UNCHANGED upState
         ELSE /\ pc' = "done"
              /\ UNCHANGED <<closeCalls, upState>>
    /\ UNCHANGED <<sideVars, pureVars, multiVars, cfgVars, azure_ws, connVars, azureFrames, toClient, clientCalls,
                   clientEnv, upEnv, taskVars>>

\* The end-of-stream test written as "if not message": an empty text message
\* is taken for the end of the stream.
IsEndOfStream_Falsy(m) == m = None \/ m = Msg("")

\* The end-of-stream test written as "message is None or message == ''".
IsEndOfStream_OrEmptyText(m) == m \in {None, Msg("")}

\* ------------------------------------------------------------ relay tasks
\* line 265: "if message is None".
IsEndOfStream(m) == m = None

\* The forwarding loops without their "except Exception": an exception of a
\* receive or send call leaves the task's coroutine.
TaskOnException_Escapes == "failed"

\* lines 269-270 and 286-287: "except Exception" around each forwarding loop
\* catches the exception of a receive or send call; the task ends normally.
TaskOnException == "done"

\* The text cut for the log line (message[:LOG_MESSAGE_MAX_LENGTH]) passed to
\* send instead of the message; "a" stands for a text the cut shortens.
Verbatim_LogTruncated(p) == IF p = "a" THEN "" ELSE p

\* lines 268 and 284: the received message object itself is passed to send.
Verbatim(p) == p

\* The executor starts the queued client_ws.receive call in a worker thread.
Worker_StartReceive ==
    /\ rxThread = "queued"
    /\ rxThread' = "blocked"
    /\ UNCHANGED <<sideVars, pureVars, multiVars, cfgVars, pc, azure_ws, connVars, closeCalls, upState,
                   azureFrames, toClient, clientCalls, clientEnv, upEnv, c2a, a2c,
                   rxResult, txThread, txMsg, rxCount, upRxCount,
                   taskExc>>

\* lines 261-264: client_ws.receive in the worker thread returns the next
\* item the client sent, or raises when the client connection is broken.  A
\* thread whose task was cancelled still takes the item; its result is
\* discarded.
Worker_Receive ==
    /\ rxThread = "blocked"
    /\ clientState = "broken" \/ rxCount < Len(clientSent)
    /\ IF clientState = "broken"
         THEN /\ rxResult' = [exc |-> TRUE, val |-> None]
              /\ UNCHANGED rxCount
         ELSE /\ rxResult' = [exc |-> FALSE, val |-> clientSent[rxCount + 1]]
              /\ rxCount' = rxCount + 1
    /\ clientCalls' = clientCalls \cup {ReceiveCall}
    /\ rxThread' = IF c2a = "await_recv" THEN "got" ELSE "none"
    /\ UNCHANGED <<sideVars, pureVars, multiVars, cfgVars, pc, azure_ws, connVars, closeCalls, upState,
                   azureFrames, toClient, clientEnv, upEnv, c2a, a2c,
                   txThread, txMsg, upRxCount,
                   taskExc>>

\* lines 265-270: the c2a task resumes with the result of receive: an
\* exception or None ends the task, any other message is passed to
\* azure_ws.send, which raises when the upstream connection is not open.
C2A_OnReceive ==
    /\ c2a = "await_recv"
    /\ rxThread = "got"
    /\ rxThread' = "none"
    /\ IF rxResult.exc
         THEN /\ c2a' = TaskOnException
              /\ taskExc' = taskExc \cup {"client_receive"}
              /\ UNCHANGED azureFrames
         ELSE IF IsEndOfStream(rxResult.val)
         THEN /\ c2a' = "done"
              /\ UNCHANGED <<azureFrames, taskExc>>
         ELSE /\ azureFrames' = Append(azureFrames,
                                       RelayFrame(Verbatim(rxResult.val[1])))
              /\ IF upState = "open"
                   THEN /\ c2a' = "await_send"
                        /\ UNCHANGED taskExc
                   ELSE /\ c2a' = TaskOnException
                        /\ taskExc' = taskExc \cup {"azure_send"}
    /\ UNCHANGED <<sideVars, pureVars, multiVars, cfgVars, pc, azure_ws, connVars, closeCalls, upState,
                   toClient, clientCalls, clientEnv, upEnv, a2c, rxResult, txThread, txMsg,
                   rxCount, upRxCount>>

\* lines 260-264: azure_ws.send has completed; the loop hands the next
\* client_ws.receive to the executor.
C2A_SendDone ==
    /\ c2a = "await_send"
    /\ c2a' = "await_recv"
    /\ rxThread' = "queued"
    /\ UNCHANGED <<sideVars, pureVars, multiVars, cfgVars, pc, azure_ws, connVars, closeCalls, upState,
                   azureFrames, toClient, clientCalls, clientEnv, upEnv, a2c, rxResult,
                   txThread, txMsg, rxCount, upRxCount,
                   taskExc>>

\* The a2c loop taking the next upstream message while the send of the
\* previous one is still outstanding.
A2C_Recv_Prefetch ==
    /\ a2c \in {"await_up", "await_send"}
    /\ upRxCount < Len(upSent)
    /\ upRxCount' = upRxCount + 1
    /\ txMsg' = Verbatim(upSent[upRxCount + 1])
    /\ txThread' = "queued"
    /\ a2c' = "await_send"
    /\ UNCHANGED <<sideVars, pureVars, multiVars, cfgVars, pc, azure_ws, connVars, closeCalls, upState,
                   azureFrames, toClient, clientCalls, clientEnv, upEnv, c2a, rxThread,
                   rxResult, rxCount, taskExc>>

\* lines 279-285: "async for message in azure_ws" yields the next upstream
\* message, which is handed to the executor as client_ws.send(message); the
\* iteration ends, normally or with an exception that line 286 catches, when
\* the upstream connection is no longer open and nothing is left to yield.
A2C_Recv ==
    /\ a2c = "await_up"
    /\ IF upRxCount < Len(upSent)
         THEN /\ upRxCount' = upRxCount + 1
              /\ txMsg' = Verbatim(upSent[upRxCount + 1])
              /\ txThread' = "queued"
              /\ a2c' = "await_send"
              /\ UNCHANGED taskExc
         ELSE /\ upState \in {"closed", "error", "closed_local"}
              /\ IF upState = "error"
                   THEN /\ a2c' = TaskOnException
                        /\ taskExc' = taskExc \cup {"azure_receive"}
                   ELSE /\ a2c' = "done"
                        /\ UNCHANGED taskExc
              /\ UNCHANGED <<upRxCount, txMsg, txThread>>
    /\ UNCHANGED <<sideVars, pureVars, multiVars, cfgVars, pc, azure_ws, connVars, closeCalls, upState,
                   azureFrames, toClient, clientCalls, clientEnv, upEnv, c2a, rxThread,
                   rxResult, rxCount>>

\* The executor starts the queued client_ws.send call in a worker thread.
Worker_StartSend ==
    /\ txThread = "queued"
    /\ txThread' = "running"
    /\ UNCHANGED <<sideVars, pureVars, multiVars, cfgVars, pc, azure_ws, connVars, closeCalls, upState,
                   azureFrames, toClient, clientCalls, clientEnv, upEnv, c2a, a2c,
                   rxThread, rxResult, txMsg, rxCount, upRxCount,
                   taskExc>>

\* lines 281-285: client_ws.send(message) in the worker thread; it raises
\* when the client connection is broken.  A thread whose task was cancelled
\* still performs the send.
Worker_Send ==
    /\ txThread = "running"
    /\ toClient' = Append(toClient, RelayFrame(txMsg))
    /\ clientCalls' = clientCalls \cup {SendCall(txMsg)}
    /\ txThread' = IF a2c = "await_send"
                     THEN (IF clientState = "broken" THEN "err" ELSE "ok")
                     ELSE "none"
    /\ UNCHANGED <<sideVars, pureVars, multiVars, cfgVars, pc, azure_ws, connVars, closeCalls, upState,
                   azureFrames, clientEnv, upEnv, c2a, a2c, rxThread,
                   rxResult, txMsg, rxCount, upRxCount,
                   taskExc>>

\* lines 279-287: the a2c task resumes after the executor's send: it goes on
\* with the next upstream message, or ends when the send raised.
A2C_OnSent ==
    /\ a2c = "await_send"
    /\ txThread \in {"ok", "err"}
    /\ IF txThread = "ok"
         THEN /\ a2c' = "await_up"
              /\ UNCHANGED taskExc
         ELSE /\ a2c' = TaskOnException
              /\ taskExc' = taskExc \cup {"client_send"}
    /\ txThread' = "none"
    /\ UNCHANGED <<sideVars, pureVars, multiVars, cfgVars, pc, azure_ws, connVars, closeCalls, upState,
                   azureFrames, toClient, clientCalls, clientEnv, upEnv, c2a, rxThread,
                   rxResult, txMsg, rxCount, upRxCount>>

\* ------------------------------------------------------ the specifications
Environment ==
    \/ ClientSends
    \/ ClientEnds
    \/ ClientBreaks
    \/ UpstreamSends
    \/ UpstreamCloses
    \/ UpstreamFails

Program ==
    \/ CheckApiKey
    \/ GetToken
    \/ WsConnect
    \/ SendInitialConfig
    \/ SendError
    \/ SendConnected
    \/ RelayStart
    \/ RelayWait
    \/ Finally
    \/ Worker_StartReceive
    \/ Worker_Receive
    \/ C2A_OnReceive
    \/ C2A_SendDone
    \/ A2C_Recv
    \/ Worker_StartSend
    \/ Worker_Send
    \/ A2C_OnSent

Next == Environment \/ Program

Spec == Init /\ [][Next]_vars

\* The event loop and the executor run every step of the program that stays
\* enabled; the peers are under no obligation to send, end or fail.
FairSpec ==
    /\ Init
    /\ [][Next]_vars
    /\ WF_vars(CheckApiKey)
    /\ WF_vars(GetToken)
    /\ WF_vars(WsConnect)
    /\ WF_vars(SendInitialConfig)
    /\ WF_vars(SendError)
    /\ WF_vars(SendConnected)
    /\ WF_vars(RelayStart)
    /\ WF_vars(RelayWait)
    /\ WF_vars(Finally)
    /\ WF_vars(Worker_StartReceive)
    /\ WF_vars(Worker_Receive)
    /\ WF_vars(C2A_OnReceive)
    /\ WF_vars(C2A_SendDone)
    /\ WF_vars(A2C_Recv)
    /\ WF_vars(Worker_StartSend)
    /\ WF_vars(Worker_Send)
    /\ WF_vars(A2C_OnSent)

TypeOK ==
    /\ pc \in {"connect", "get_token", "ws_connect", "send_init", "send_error",
               "send_connected", "relay_start", "relay_wait", "finally",
               "done", "raised"}
    /\ azure_ws \in {"None", "conn"}
    /\ connFail \in {"none", "no_api_key", "token", "handshake", "init_send"}
    /\ upState \in {"absent", "open", "closed", "error", "closed_local"}
    /\ c2a \in {"none", "await_recv", "await_send", "done", "cancelled", "failed"}
    /\ a2c \in {"none", "await_up", "await_send", "done", "cancelled", "failed"}
    /\ taskExc \subseteq {"client_receive", "azure_send", "azure_receive",
                          "client_send"}
    /\ agent \in Agents
    /\ sentConfig \in {NoConfig, BuildSessionConfig}
    /\ rxThread \in {"none", "queued", "blocked", "got"}
    /\ txThread \in {"none", "queued", "running", "ok", "err"}
    /\ rxCount \in 0..Len(clientSent)
    /\ upRxCount \in 0..Len(upSent)

\* ----------------------------------------------------- derived quantities
RECURSIVE RelayBodies(_)
\* The bodies of the frames the relay forwarded, in call order.
RelayBodies(frames) ==
    IF frames = <<>> THEN <<>>
    ELSE IF Head(frames).origin = "relay"
           THEN <<Head(frames).body>> \o RelayBodies(Tail(frames))
           ELSE RelayBodies(Tail(frames))

RECURSIVE TextsOf(_)
\* The text messages among items returned by receive (None left out).
TextsOf(items) ==
    IF items = <<>> THEN <<>>
    ELSE IF Head(items) = None THEN TextsOf(Tail(items))
         ELSE <<Head(items)[1]>> \o TextsOf(Tail(items))

IsPrefix(s, t) == Len(s) <= Len(t) /\ SubSeq(t, 1, Len(s)) = s

CountType(frames, t) ==
    Cardinality({i \in 1..Len(frames) :
                    frames[i].origin = "proxy" /\ frames[i].type = t})

ReceivedFromClient == TextsOf(SubSeq(clientSent, 1, rxCount))
ReceivedFromUpstream == SubSeq(upSent, 1, upRxCount)

RelayEntered == c2a # "none"
RelayReturned == RelayEntered /\ pc \in {"finally", "done", "raised"}
Closed == pc \in {"done", "raised"}

\* The state of the handler's state machine (spec section 4.4): CONNECTING
\* while the connector runs and its failure is reported, NEGOTIATING while the
\* confirmation is sent, RELAYING from the start of the relay until the
\* upstream connection has been closed, CLOSED once the call has ended.
HState ==
    CASE pc \in {"connect", "get_token", "ws_connect", "send_init", "send_error"}
           -> "CONNECTING"
      [] pc = "send_connected" -> "NEGOTIATING"
      [] pc \in {"relay_start", "relay_wait"} -> "RELAYING"
      [] pc = "finally" -> IF azure_ws = "conn" THEN "RELAYING" ELSE "CONNECTING"
      [] OTHER -> "CLOSED"

\* ------------------------------------------------------------------ claims

\* C1: every upstream connection the connector opens has been closed exactly
\* once when handle_connection returns, also when the socket is open and the
\* send of the initial session.update fails.
C1_OpenedIsClosedOnce == pc = "done" => closeCalls = upOpened

\* C2: whenever the relay has completed, for whatever reason, the handler
\* calls close on the upstream connection exactly once: close is not called
\* before the relay has returned, never twice, and has been called once when
\* the call ends.
C2_CloseOnceAfterRelay ==
    /\ closeCalls <= 1
    /\ (RelayEntered /\ ~Closed) => closeCalls = 0
    /\ (RelayEntered /\ Closed) => closeCalls = 1

\* The call has ended after a relay that an upstream-side error ended.
C2_Witness ==
    /\ pc = "done"
    /\ a2c = "done"
    /\ c2a = "cancelled"
    /\ upState = "error"
    /\ closeCalls = 1

\* C3 as stated: when the connector failed, one error frame and no
\* proxy.connected is sent, the relay is not entered, and the upstream
\* connection was never opened and never closed.
C3_FailedConnectNeverOpened ==
    connFail # "none" =>
        /\ CountType(toClient, PROXY_CONNECTED_TYPE) = 0
        /\ ~RelayEntered
        /\ upOpened = 0
        /\ closeCalls = 0
        /\ CountType(toClient, ERROR_TYPE) <= 1
        /\ Closed => CountType(toClient, ERROR_TYPE) = 1

\* C3 amended: when the connector failed, one error frame and no
\* proxy.connected is sent, the relay is not entered, the handler holds no
\* upstream connection and calls no close; the upstream connection was never
\* opened and never sent on, except when the failing step is the send of the
\* initial session.update: then it was opened and that one send was made.
C3_FailedConnect ==
    connFail # "none" =>
        /\ CountType(toClient, PROXY_CONNECTED_TYPE) = 0
        /\ ~RelayEntered
        /\ azure_ws = "None"
        /\ closeCalls = 0
        /\ CountType(toClient, ERROR_TYPE) <= 1
        /\ Closed => /\ CountType(toClient, ERROR_TYPE) = 1
                     /\ Len(toClient) = 1
                     /\ pc = "done"
        /\ connFail # "init_send" => (upOpened = 0 /\ azureFrames = <<>>)
        /\ connFail = "init_send" =>
              /\ upOpened = 1
              /\ azureFrames = <<ProxyFrame(SESSION_UPDATE_TYPE, SESSION_UPDATE_TYPE)>>

\* The call has ended after the send of the initial session.update failed.
C3_Witness ==
    /\ pc = "done"
    /\ connFail = "init_send"
    /\ toClient = <<ProxyFrame(ERROR_TYPE, CONNECT_FAILED_TEXT)>>

\* C4: handle_connection never lets an exception reach its caller, whichever
\* step fails, the close of the upstream connection in finally included.
C4_NeverPropagates == pc # "raised"

\* The handler's state changes only along CONNECTING -> NEGOTIATING ->
\* RELAYING -> CLOSED, or from CONNECTING directly to CLOSED when the connector
\* failed.
HStateStep ==
    \/ HState' = HState
    \/ HState = "CONNECTING" /\ HState' = "NEGOTIATING" /\ connFail' = "none"
    \/ HState = "NEGOTIATING" /\ HState' = "RELAYING"
    \/ HState = "RELAYING" /\ HState' = "CLOSED"
    \/ HState = "CONNECTING" /\ HState' = "CLOSED" /\ connFail # "none"

QuietUpstream ==
    /\ upSent = <<>>
    /\ upState \in {"open", "closed_local"}
    /\ clientState # "broken"

\* C6: with a client that sends N messages and then ends and an upstream that
\* stays silent, the relay forwards exactly the N messages, in order, and
\* then returns with the upstream-receiving task cancelled; it does not hang.
C6_ForwardsAllThenEnds ==
    /\ [](QuietUpstream /\ RelayReturned =>
            /\ clientState = "ended"
            /\ RelayBodies(azureFrames) = TextsOf(clientSent)
            /\ c2a = "done"
            /\ a2c = "cancelled")
    /\ (pc = "relay_wait" /\ clientState = "ended")
          ~> (RelayReturned \/ ~QuietUpstream)

\* The relay has returned after it forwarded two messages, the first one the
\* empty text, of a client that then ended, the upstream being silent.
C6_Witness ==
    /\ QuietUpstream
    /\ RelayReturned
    /\ clientSent = <<Msg(""), Msg("a"), None>>
    /\ RelayBodies(azureFrames) = <<"", "a">>

\* C7: when the upstream side ends first, the client-to-upstream task is
\* cancelled when the relay returns, and from then on no client message is
\* passed to the upstream connection, whenever a client message arrives.
C7_NoForwardAfterReturn ==
    /\ [](RelayReturned => c2a \in {"done", "cancelled"})
    /\ [](RelayReturned /\ a2c = "done" /\ c2a # "done" => c2a = "cancelled")
    /\ [][RelayReturned => azureFrames' = azureFrames]_vars

\* The upstream ended first, the c2a task was cancelled, and a client message
\* that the proxy took from the client connection was not forwarded.
C7_Witness ==
    /\ RelayReturned
    /\ a2c = "done"
    /\ c2a = "cancelled"
    /\ Len(ReceivedFromClient) > Len(RelayBodies(azureFrames))

\* C8: once the relay has returned, no client_ws.receive call that the relay
\* started is still outstanding, so that the proxy takes no later client
\* message.
C8_NoReceiveOutstanding ==
    /\ [](RelayReturned => rxThread \notin {"queued", "blocked"})
    /\ [][RelayReturned => rxCount' = rxCount]_vars

\* C9: the relay returns when the first task is done and cancels the other;
\* after it has returned no upstream message is passed to the client.
C9_NoDeliveryAfterReturn ==
    /\ [](RelayReturned => /\ c2a \in {"done", "cancelled"}
                           /\ a2c \in {"done", "cancelled"})
    /\ [][RelayReturned => toClient' = toClient]_vars

\* C10: per direction, what the relay has passed on is a prefix of what it
\* received, which is a prefix of what the peer sent, payloads unchanged.
C10_ExactOrderedPassThrough ==
    /\ IsPrefix(RelayBodies(azureFrames), ReceivedFromClient)
    /\ IsPrefix(ReceivedFromClient, TextsOf(clientSent))
    /\ IsPrefix(RelayBodies(toClient), ReceivedFromUpstream)
    /\ IsPrefix(ReceivedFromUpstream, upSent)

\* Two different messages were passed on in each direction.
C10_Witness ==
    /\ RelayBodies(azureFrames) = <<"a", "">>
    /\ RelayBodies(toClient) = <<"", "a">>

\* C11: the session.update frame built by the proxy is the first frame sent
\* on the upstream connection and is sent once: nothing is sent on a
\* connection that was not opened, the first send call on an opened
\* connection is the session.update built by _build_session_config, every
\* later frame is a forwarded client message, and once the connector is past
\* its initial send exactly one session.update of the proxy has been sent.
C11_SessionUpdateFirstOnce ==
    /\ upOpened = 0 => azureFrames = <<>>
    /\ CountType(azureFrames, SESSION_UPDATE_TYPE) <= 1
    /\ azureFrames # <<>> =>
          /\ azureFrames[1] = ProxyFrame(SESSION_UPDATE_TYPE, SESSION_UPDATE_TYPE)
          /\ sentConfig = BuildSessionConfig
          /\ sentConfig.type = SESSION_UPDATE_TYPE
    /\ \A i \in 2..Len(azureFrames) : azureFrames[i].origin = "relay"
    /\ (upOpened = 1 /\ pc # "send_init") =>
          CountType(azureFrames, SESSION_UPDATE_TYPE) = 1

\* Two client messages were forwarded after the session.update frame.
C11_Witness ==
    /\ Len(azureFrames) = 3
    /\ azureFrames[1].type = SESSION_UPDATE_TYPE
    /\ RelayBodies(azureFrames) = <<"a", "a">>

\* C12: after a successful connect the handler sends proxy.connected before
\* it enters the relay: the relay is entered only with a connection returned
\* by the connector, the confirmation is the first frame sent to the client
\* and is sent once, and every upstream message passed to the client comes
\* after it.
C12_ConnectedBeforeRelay ==
    /\ (pc \in {"relay_start", "relay_wait"} \/ RelayEntered) =>
          /\ connFail = "none"
          /\ azure_ws = "conn"
          /\ upOpened = 1
          /\ toClient # <<>>
          /\ toClient[1] = ProxyFrame(PROXY_CONNECTED_TYPE, CONNECTED_TEXT)
          /\ CountType(toClient, PROXY_CONNECTED_TYPE) = 1
    /\ \A i \in 1..Len(toClient) :
          toClient[i].origin = "relay" =>
              i > 1 /\ toClient[1].type = PROXY_CONNECTED_TYPE

\* An upstream message was passed to the client after the confirmation.
C12_Witness ==
    /\ Len(toClient) = 2
    /\ toClient[1].type = PROXY_CONNECTED_TYPE
    /\ toClient[2] = RelayFrame("a")

\* C13: a receive or send failure on either leg during relaying is a normal
\* end of the session: the proxy sends no error frame to the client and no
\* frame of its own to the upstream because of it, and the handler closes the
\* upstream connection once and returns.
C13_TransportFailureIsNormalEnd ==
    taskExc # {} =>
        /\ CountType(toClient, ERROR_TYPE) = 0
        /\ CountType(azureFrames, ERROR_TYPE) = 0
        /\ Closed => (pc = "done" /\ closeCalls = 1)

\* C14: a receive or send error in a forwarding task ends that task silently
\* (no exception leaves the task) and the relay returns to the handler
\* normally: the handler reports no error to the client after it.
C14_RelayNeverRaises ==
    /\ c2a # "failed"
    /\ a2c # "failed"
    /\ (taskExc \cap {"client_receive", "azure_send"}) # {} => c2a = "done"
    /\ (taskExc \cap {"azure_receive", "client_send"}) # {} => a2c = "done"
    /\ RelayReturned => CountType(toClient, ERROR_TYPE) = 0

\* The relay has returned after azure_ws.send raised in the c2a task.
C14_Witness ==
    /\ RelayReturned
    /\ "azure_send" \in taskExc
    /\ c2a = "done"

\* A side has ended: the client sent its end of stream or broke, or the
\* upstream closed or failed.
SideEnded ==
    \/ clientState \in {"ended", "broken"}
    \/ upState \in {"closed", "error"}

\* C15: once either side has ended during relaying, the relay eventually
\* returns and the handler eventually closes the upstream connection and
\* returns, whatever the other side does.
C15_EndedSessionReturns ==
    (pc = "relay_wait" /\ SideEnded) ~> (pc = "done" /\ closeCalls = 1)

\* C17: when the relay ended because one side closed, neither the client leg
\* nor the upstream leg is open once handle_connection has returned.
C17_NoLegLeftOpen ==
    (RelayEntered /\ pc = "done") =>
        (upState # "open" /\ clientState # "open")

\* C18: the connector returns no connection when the API key is missing, the
\* token request fails, the handshake fails or the initial send fails; in
\* each case the handler holds no connection, reports the failure with the
\* message of line 75 (not with the text of an exception), does not enter the
\* relay, and the call ends without an exception.
C18_ConnectorReportsFailure ==
    /\ (~apiKey /\ pc # "connect") => connFail = "no_api_key"
    /\ connFail = "no_api_key" => (~apiKey /\ tokenReqs = 0 /\ upOpened = 0)
    /\ connFail = "token" => (tokenReqs = 1 /\ upOpened = 0)
    /\ connFail = "handshake" => (tokenReqs = 1 /\ upOpened = 0)
    /\ connFail = "init_send" => (upOpened = 1 /\ upState # "open")
    /\ connFail # "none" =>
          /\ azure_ws = "None"
          /\ ~RelayEntered
          /\ pc \in {"send_error", "finally", "done"}
          /\ pc # "send_error" =>
                toClient = <<ProxyFrame(ERROR_TYPE, CONNECT_FAILED_TEXT)>>
    /\ (pc \in {"send_connected", "relay_start", "relay_wait"} \/ RelayEntered)
          => connFail = "none"

\* The call has ended after the API key was found missing.
C18_Witness ==
    /\ pc = "done"
    /\ connFail = "no_api_key"
    /\ toClient = <<ProxyFrame(ERROR_TYPE, CONNECT_FAILED_TEXT)>>

\* C20: when an agent profile is supplied for the session, the session object
\* of the session.update frame carries the agent's instructions, temperature
\* and max tokens (as max_response_output_tokens).
C20_AgentFieldsInSessionUpdate ==
    (agent # NoAgent /\ sentConfig # NoConfig) =>
        /\ sentConfig.type = SESSION_UPDATE_TYPE
        /\ {"instructions", "temperature", "max_response_output_tokens"}
              \subseteq DOMAIN sentConfig.session
        /\ sentConfig.session.instructions = agent.instructions
        /\ sentConfig.session.temperature = agent.temperature
        /\ sentConfig.session.max_response_output_tokens = agent.max_tokens

\* The keys an agent profile adds to the session object, under the name the
\* code gives the token limit and under the name the spec gives it.
AgentKeys ==
    {"model", "instructions", "temperature", "max_output_tokens",
     "max_response_output_tokens"}

\* C21: when no agent profile is supplied, the session object of the
\* session.update frame has none of the keys model, instructions, temperature,
\* max_output_tokens (absent from the object, not present with a null), and
\* exactly one session.update frame is sent.
C21_NoAgentNoAgentKeys ==
    (agent = NoAgent /\ sentConfig # NoConfig) =>
        /\ sentConfig.type = SESSION_UPDATE_TYPE
        /\ DOMAIN sentConfig.session \cap AgentKeys = {}
        /\ CountType(azureFrames, SESSION_UPDATE_TYPE) = 1

\* Without an agent profile the session.update was sent, the relay ran and
\* the call has ended.
C21_Witness ==
    /\ agent = NoAgent
    /\ sentConfig = BuildSessionConfig
    /\ azureFrames # <<>>
    /\ RelayEntered
    /\ pc = "done"

\* The positions of handle_connection inside the connector.
ConnectorSteps == {"connect", "get_token", "ws_connect", "send_init"}

\* C28: there is no automatic retry: one call of handle_connection makes at
\* most one token request and opens at most one upstream socket, and once the
\* connector has failed no further token request or handshake is made and the
\* call does not go back into the connector.
C28_NoRetry ==
    [][/\ tokenReqs' <= 1
       /\ upOpened' <= 1
       /\ pc \notin ConnectorSteps => pc' \notin ConnectorSteps
       /\ connFail # "none" =>
             /\ connFail' = connFail
             /\ tokenReqs' = tokenReqs
             /\ upOpened' = upOpened
             /\ pc' \in {"send_error", "finally", "done"}]_vars

\* The call has ended after its one handshake failed.
C28_Witness ==
    /\ pc = "done"
    /\ connFail = "handshake"
    /\ tokenReqs = 1
    /\ upOpened = 0
    /\ azureFrames = <<>>

\* The positions of handle_connection inside _handle_message_forwarding.
RelaySteps == {"relay_start", "relay_wait"}

\* A forwarding task has come to its end.
TaskOver(t) == t \in {"done", "cancelled", "failed"}

\* C29: there is no idle timeout: while the client and the upstream
\* connection are both open and no call has failed, the relay does not
\* return, neither forwarding task ends, and the handler closes nothing,
\* whether or not the two sides send anything.
C29_NoIdleTimeout ==
    [][(pc \in RelaySteps /\ ~SideEnded) =>
          /\ pc' \in RelaySteps
          /\ closeCalls' = 0
          /\ upState' # "closed_local"
          /\ taskExc' = {}
          /\ ~SideEnded' => (~TaskOver(c2a') /\ ~TaskOver(a2c'))]_vars

\* Both sides are open and have sent nothing; the relay waits, its receive
\* call blocked in a worker thread, and no step of the program is possible.
C29_Witness ==
    /\ pc = "relay_wait"
    /\ ~SideEnded
    /\ clientSent = <<>>
    /\ upSent = <<>>
    /\ rxThread = "blocked"
    /\ a2c = "await_up"
    /\ closeCalls = 0
    /\ ~ENABLED Program

\* The c2a task resumes with the result of a receive call and leaves the
\* await (lines 261-268).
C2AResumes ==
    /\ c2a = "await_recv"
    /\ rxThread = "got"
    /\ c2a' \notin {"await_recv", "cancelled"}

\* C36: the client-to-upstream loop stops exactly when receive returns None
\* or a receive or send call raises: the task ends only on resuming from a
\* receive; it then ends if and only if receive raised, returned None, or
\* the send of the received message raised; None is never passed to the
\* upstream connection, and every other received message, the empty one
\* included, is passed to it unchanged.
C36_StopsOnlyOnEndOrFailure ==
    [][/\ (c2a # "done" /\ c2a' = "done") => C2AResumes
       /\ C2AResumes =>
             /\ c2a' = "done" <=>
                   \/ rxResult.exc
                   \/ rxResult.val = None
                   \/ "azure_send" \in taskExc'
             /\ (rxResult.exc \/ rxResult.val = None) =>
                   azureFrames' = azureFrames
             /\ (~rxResult.exc /\ rxResult.val # None) =>
                   /\ azureFrames' =
                         Append(azureFrames, RelayFrame(rxResult.val[1]))
                   /\ c2a' \in {"await_send", "done"}]_vars

\* The empty message and then "a" were forwarded, then None ended the loop
\* with no call failed.
C36_Witness ==
    /\ c2a = "done"
    /\ taskExc = {}
    /\ ReceivedFromClient = <<"", "a">>
    /\ RelayBodies(azureFrames) = <<"", "a">>
    /\ rxCount = 3
    /\ clientSent[3] = None

\* C38: when the API key is missing the connector fails before any external
\* effect: no credential is created, no token is requested, no upstream
\* connection is opened or closed and nothing is sent upstream, at any time
\* of the call.
C38_MissingKeyNoEffect ==
    ~apiKey =>
        /\ cred = "none"
        /\ credsOpen = {}
        /\ tokenReqs = 0
        /\ upOpened = 0
        /\ upState = "absent"
        /\ azureFrames = <<>>
        /\ sentConfig = NoConfig
        /\ closeCalls = 0
        /\ pc \in {"connect", "send_error", "finally", "done"}

\* Without an API key the call has reported the failure and ended, the
\* client having sent a message meanwhile that nobody read.
C38_Witness ==
    /\ ~apiKey
    /\ pc = "done"
    /\ connFail = "no_api_key"
    /\ Len(toClient) = 1
    /\ clientSent # <<>>
    /\ rxCount = 0

RECURSIVE ProxyTypes(_)
\* The types of the frames the proxy itself originated, in call order.
ProxyTypes(frames) ==
    IF frames = <<>> THEN <<>>
    ELSE IF Head(frames).origin = "proxy"
           THEN <<Head(frames).type>> \o ProxyTypes(Tail(frames))
           ELSE ProxyTypes(Tail(frames))

\* C39: the frames the proxy itself sends to the client of a session are
\* either one error and nothing else, or one proxy.connected optionally
\* followed by one error: never two errors, never proxy.connected after an
\* error, and no proxy.connected when the connector failed.
C39_ProxyFramesToClient ==
    /\ ProxyTypes(toClient) \in
          { <<>>, <<ERROR_TYPE>>, <<PROXY_CONNECTED_TYPE>>,
            <<PROXY_CONNECTED_TYPE, ERROR_TYPE>> }
    /\ connFail # "none" => ProxyTypes(toClient) \in {<<>>, <<ERROR_TYPE>>}
    /\ (connFail # "none" /\ pc \in {"finally", "done"}) =>
          toClient = <<ProxyFrame(ERROR_TYPE, CONNECT_FAILED_TEXT)>>

\* The token request failed: the call has ended with the one error frame as
\* the only frame sent to the client.
C39_Witness ==
    /\ pc = "done"
    /\ connFail = "token"
    /\ ProxyTypes(toClient) = <<ERROR_TYPE>>
    /\ Len(toClient) = 1

\* Messages received and not passed on, per direction.
PendingToAzure == Len(ReceivedFromClient) - Len(RelayBodies(azureFrames))
PendingToClient == upRxCount - Len(RelayBodies(toClient))

\* C40: the relay does not buffer: in each direction a message is taken from
\* the source only when every message taken before has been passed to send,
\* so at any time at most one received message per direction has not been
\* passed on, and at most one per direction is dropped at teardown.
C40_NoBuffering ==
    /\ [](PendingToAzure \in {0, 1} /\ PendingToClient \in {0, 1})
    /\ [][/\ rxCount' > rxCount => PendingToAzure = 0
          /\ upRxCount' > upRxCount => PendingToClient = 0]_vars

\* The client ended while an upstream message taken by the a2c task was
\* waiting for its send: the task was cancelled, the call has ended and the
\* message is dropped.
C40_Witness ==
    /\ pc = "done"
    /\ c2a = "done"
    /\ a2c = "cancelled"
    /\ txThread = "none"
    /\ PendingToClient = 1
    /\ PendingToAzure = 0
    /\ RelayBodies(azureFrames) = <<"a">>

\* C33: every blocking call on the client connection (receive of the c2a
\* loop, send of the a2c loop, send of _send_message) runs in a worker thread
\* of the executor and never in the event loop's thread, and what
\* _send_message passes to send is the JSON text of the message: decoding
\* it gives the message back.
C33_ClientCallsOnWorkers ==
    \A c \in clientCalls :
        /\ c.on = "worker"
        /\ c.op = "send_message" => (c.json = Dumps(c.message) /\ Loads(c.json) = c.message)

\* A session in which all three kinds of call were made: the confirmation,
\* a receive and a relayed send.
C33_Witness ==
    /\ SendMessageCall(ConnectedMessage) \in clientCalls
    /\ ReceiveCall \in clientCalls
    /\ SendCall("a") \in clientCalls
    /\ Loads(Dumps(ConnectedMessage)) = ConnectedMessage
    /\ pc = "done"

\* C35: every credential object created for a connection attempt is released
\* before the attempt completes, on success and on every failure.
C35_CredentialsReleased == pc \notin ConnectorSteps => credsOpen = {}

\* ------------------------------------------------------ concurrent sessions
\* Several clients served by one VoiceProxyHandler: every call of
\* handle_connection has its own locals (azure_ws, the connector's azure_ws,
\* the two tasks); the handler object itself holds only agent_manager
\* (line 57).  Each call goes through the steps of the single session above,
\* with the relay reduced to forwarding steps and its end.  A connection
\* records which sessions have called send or close on it.

singleVars == <<cfgVars, pc, azure_ws, connVars, closeCalls, upState,
                azureFrames, toClient, clientCalls, clientEnv, upEnv, taskVars>>

\* A single session that takes no step.
SingleIdle ==
    /\ apiKey \in BOOLEAN
    /\ clientId \in BOOLEAN
    /\ agent = NoAgent
    /\ sentConfig = NoConfig
    /\ taskExc = {}
    /\ pc = "connect"
    /\ azure_ws = "None"
    /\ connFail = "none"
    /\ cred = "none"
    /\ credsOpen = {}
    /\ tokenReqs = 0
    /\ upOpened = 0
    /\ closeCalls = 0
    /\ upState = "absent"
    /\ azureFrames = <<>>
    /\ toClient = <<>>
    /\ clientCalls = {}
    /\ clientSent = <<>>
    /\ rxCount = 0
    /\ clientState = "open"
    /\ upSent = <<>>
    /\ upRxCount = 0
    /\ c2a = "none"
    /\ a2c = "none"
    /\ rxThread = "none"
    /\ rxResult = [exc |-> FALSE, val |-> None]
    /\ txThread = "none"
    /\ txMsg = ""

MInit == MultiInit /\ SingleIdle /\ PureIdle /\ SideIdle /\ config = PlainConfig

NewConn(s, tok) == [owner |-> s, auth |-> tok, state |-> "open", sends |-> 0,
                    closes |-> 0, users |-> {}]

\* The token kept in an attribute of the handler object by a call that
\* obtained one, and used again by the other calls.
NewToken_Cached(s) ==
    LET held == {mSess[t].token : t \in Sessions} \ {0}
    IN IF held = {} THEN s ELSE CHOOSE k \in held : \A j \in held : k <= j

\* lines 123-131: every get_token call is made on a credential object
\* created for that call and returns a token of its own; a token is named
\* after the call it was issued to.
NewToken(s) == s

ConnIds == {c \in ConnSlots : mConns[c].state # "absent"}
ConnsOf(s) == {c \in ConnIds : mConns[c].owner = s}

\* line 135: the id of the connection the call of session s opens next.
NewConnId(s) == s + MaxSessions * Cardinality(ConnsOf(s))

\* The connection kept in an attribute of the handler object (self.azure_ws)
\* instead of a local: every call reads the connection stored there, the one
\* with the highest id of those the calls have stored.
AzureWsOf_InstanceAttr(s) ==
    LET stored == {mSess[t].azure_ws : t \in Sessions} \ {0}
    IN IF stored = {} THEN 0
       ELSE CHOOSE c \in stored : \A d \in stored : d <= c

\* lines 67 and 73: azure_ws is a local of the handle_connection call.
AzureWsOf(s) == mSess[s].azure_ws

\* lines 111-136: the connector of session s returns None for a missing API
\* key; otherwise it makes one token request, on the managed-identity
\* credential when a client id is configured and on the default credential
\* otherwise, and with the token it opens a new upstream connection.  The
\* token request and the handshake may fail.
M_Connect(s) ==
    /\ mSess[s].pc = "connect"
    /\ IF ~apiKey
         THEN /\ mSess' = [mSess EXCEPT ![s].pc = "send_error"]
              /\ UNCHANGED mConns
         ELSE \E outcome \in {"token_failed", "handshake_failed", "ok"} :
                LET requested ==
                      [mSess[s] EXCEPT
                          !.tokenReqs = @ + 1,
                          !.cred = IF clientId THEN "managed" ELSE "default",
                          !.token = IF outcome = "token_failed" THEN 0
                                    ELSE NewToken(s)]
                IN IF outcome = "ok"
                     THEN /\ NewConnId(s) \in ConnSlots
                          /\ mConns' = [mConns EXCEPT ![NewConnId(s)] =
                                           NewConn(s, NewToken(s))]
                          /\ mSess' = [mSess EXCEPT ![s] =
                                [requested EXCEPT !.pc = "send_init",
                                                  !.conn = NewConnId(s)]]
                     ELSE /\ mSess' = [mSess EXCEPT ![s] =
                                [requested EXCEPT !.pc = "send_error"]]
                          /\ UNCHANGED mConns
    /\ UNCHANGED <<sideVars, pureVars, singleVars, mClient, mClientOpen>>

\* The connector trying again after a failed initial send.
M_SendInit_Retry(s) ==
    /\ mSess[s].pc = "send_init"
    /\ LET c == mSess[s].conn IN
         /\ mConns' = [mConns EXCEPT ![c].sends = @ + 1,
                                     ![c].users = @ \cup {s}]
         /\ IF mConns[c].state = "open"
              THEN mSess' = [mSess EXCEPT ![s].pc = "send_connected",
                                          ![s].azure_ws = c]
              ELSE mSess' = [mSess EXCEPT ![s].pc = "connect"]
    /\ UNCHANGED <<sideVars, pureVars, singleVars, mClient, mClientOpen>>

\* lines 138-144: the initial send on the connection the connector has just
\* opened; the connection is returned to the handler when the send succeeds.
M_SendInit(s) ==
    /\ mSess[s].pc = "send_init"
    /\ LET c == mSess[s].conn IN
         /\ mConns' = [mConns EXCEPT ![c].sends = @ + 1,
                                     ![c].users = @ \cup {s}]
         /\ IF mConns[c].state = "open"
              THEN mSess' = [mSess EXCEPT ![s].pc = "send_connected",
                                          ![s].azure_ws = c]
              ELSE mSess' = [mSess EXCEPT ![s].pc = "send_error"]
    /\ UNCHANGED <<sideVars, pureVars, singleVars, mClient, mClientOpen>>

\* lines 74-76.
M_SendError(s) ==
    /\ mSess[s].pc = "send_error"
    /\ mClient' = [mClient EXCEPT ![s] = Append(@, ERROR_TYPE)]
    /\ mSess' = [mSess EXCEPT ![s].pc = "finally"]
    /\ UNCHANGED <<sideVars, pureVars, singleVars, mConns, mClientOpen>>

\* lines 78-83.
M_SendConnected(s) ==
    /\ mSess[s].pc = "send_connected"
    /\ mClient' = [mClient EXCEPT ![s] = Append(@, PROXY_CONNECTED_TYPE)]
    /\ mSess' = [mSess EXCEPT ![s].pc = "relay"]
    /\ UNCHANGED <<sideVars, pureVars, singleVars, mConns, mClientOpen>>

\* The messages session s has relayed, in both directions: the send calls on
\* its upstream connection after the initial one and the frames sent to its
\* client after the confirmation.
Relayed(s) == (mConns[AzureWsOf(s)].sends - 1) + (Len(mClient[s]) - 1)

\* lines 259-268: a message of the session's client is sent on the session's
\* upstream connection.
M_ForwardToAzure(s) ==
    /\ mSess[s].pc = "relay"
    /\ mClientOpen[s]
    /\ LET c == AzureWsOf(s) IN
         /\ c # 0
         /\ Relayed(s) < MaxRelayed
         /\ mConns' = [mConns EXCEPT ![c].sends = @ + 1,
                                     ![c].users = @ \cup {s}]
    /\ UNCHANGED <<sideVars, pureVars, singleVars, mSess, mClient, mClientOpen>>

\* lines 279-285: a message of the session's upstream connection is sent to
\* the session's client.
M_ForwardToClient(s) ==
    /\ mSess[s].pc = "relay"
    /\ AzureWsOf(s) # 0
    /\ mConns[AzureWsOf(s)].state = "open"
    /\ Relayed(s) < MaxRelayed
    /\ mClient' = [mClient EXCEPT ![s] = Append(@, "opaque")]
    /\ UNCHANGED <<sideVars, pureVars, singleVars, mSess, mConns, mClientOpen>>

\* lines 248-251: the relay of session s returns when its client or its
\* upstream connection has ended.
M_RelayEnd(s) ==
    /\ mSess[s].pc = "relay"
    /\ \/ ~mClientOpen[s]
       \/ AzureWsOf(s) = 0
       \/ mConns[AzureWsOf(s)].state # "open"
    /\ mSess' = [mSess EXCEPT ![s].pc = "finally"]
    /\ UNCHANGED <<sideVars, pureVars, singleVars, mConns, mClient, mClientOpen>>

\* lines 89-91: the call closes the connection its azure_ws refers to.
M_Finally(s) ==
    /\ mSess[s].pc = "finally"
    /\ LET c == AzureWsOf(s) IN
         IF c # 0
           THEN \E ok \in BOOLEAN :
                  /\ mSess' = [mSess EXCEPT
                                  ![s].pc = IF ok THEN "done" ELSE "raised"]
                  /\ mConns' = [mConns EXCEPT
                                  ![c].closes = @ + 1,
                                  ![c].users = @ \cup {s},
                                  ![c].state = IF ok /\ @ = "open"
                                               THEN "closed_local" ELSE @]
           ELSE /\ mSess' = [mSess EXCEPT ![s].pc = "done"]
                /\ UNCHANGED mConns
    /\ UNCHANGED <<sideVars, pureVars, singleVars, mClient, mClientOpen>>

\* The client of session s ends.  The handler reads from the client only
\* in the relay, so an earlier end is seen there.
M_ClientEnds(s) ==
    /\ mSess[s].pc = "relay"
    /\ mClientOpen[s]
    /\ mClientOpen' = [mClientOpen EXCEPT ![s] = FALSE]
    /\ UNCHANGED <<sideVars, pureVars, singleVars, mSess, mConns, mClient>>

\* The upstream service ends connection c.
M_UpstreamEnds(c) ==
    /\ mConns[c].state = "open"
    /\ mConns' = [mConns EXCEPT ![c].state = "closed"]
    /\ UNCHANGED <<sideVars, pureVars, singleVars, mSess, mClient, mClientOpen>>

MNext ==
    \/ \E s \in Sessions : M_Connect(s)
    \/ \E s \in Sessions : M_SendInit(s)
    \/ \E s \in Sessions : M_SendError(s)
    \/ \E s \in Sessions : M_SendConnected(s)
    \/ \E s \in Sessions : M_ForwardToAzure(s)
    \/ \E s \in Sessions : M_ForwardToClient(s)
    \/ \E s \in Sessions : M_RelayEnd(s)
    \/ \E s \in Sessions : M_Finally(s)
    \/ \E s \in Sessions : M_ClientEnds(s)
    \/ \E c \in ConnIds : M_UpstreamEnds(c)

MultiSpec == MInit /\ [][MNext]_vars

MTypeOK ==
    /\ \A s \in Sessions :
          /\ mSess[s].pc \in {"connect", "send_init", "send_error",
                              "send_connected", "relay", "finally", "done",
                              "raised"}
          /\ mSess[s].conn \in {0} \cup ConnIds
          /\ mSess[s].azure_ws \in {0} \cup ConnIds
          /\ mSess[s].tokenReqs \in 0..1
          /\ mSess[s].token \in 0..MaxSessions
          /\ mSess[s].cred \in {"none", "managed", "default"}
    /\ \A c \in ConnIds :
          /\ mConns[c].owner \in Sessions
          /\ mConns[c].state \in {"open", "closed", "closed_local"}
          /\ mConns[c].users \subseteq Sessions

\* C16: one upstream connection per accepted client connection: a session
\* never opens a second upstream connection, no connection is held or used
\* (sent on, closed) by a session other than the one that opened it, and no
\* connection of a session is open once its handle_connection has returned.
C16_OneUpstreamPerSession ==
    /\ \A s \in Sessions : Cardinality(ConnsOf(s)) <= 1
    /\ \A c \in ConnIds : mConns[c].users \subseteq {mConns[c].owner}
    /\ \A s \in Sessions :
          mSess[s].azure_ws # 0 =>
             /\ mConns[mSess[s].azure_ws].owner = s
             /\ \A t \in Sessions \ {s} : mSess[t].azure_ws # mSess[s].azure_ws
    /\ \A s \in Sessions :
          mSess[s].pc = "done" =>
             \A c \in ConnsOf(s) : mConns[c].state # "open"

\* Two sessions have each opened their own connection; one has returned with
\* its connection closed while the other is relaying on an open connection.
C16_Witness ==
    /\ Cardinality(ConnIds) = 2
    /\ mSess[1].pc = "done"
    /\ mSess[1].azure_ws # 0
    /\ mConns[mSess[1].azure_ws].closes = 1
    /\ mSess[2].pc = "relay"
    /\ mSess[2].azure_ws # 0
    /\ mConns[mSess[2].azure_ws].state = "open"
    /\ mConns[mSess[2].azure_ws].sends = 2

\* What belongs to session t: the locals of its call, its client connection
\* and the upstream connections it opened.
SessionUntouched(t) ==
    /\ mSess'[t] = mSess[t]
    /\ mClient'[t] = mClient[t]
    /\ mClientOpen'[t] = mClientOpen[t]
    /\ \A c \in ConnsOf(t) : mConns'[c] = mConns[c]

C26_OneTokenRequestPerAttempt ==
    /\ \A s \in Sessions :
          /\ mSess[s].tokenReqs <= 1
          /\ (mSess[s].pc # "connect" /\ apiKey) => mSess[s].tokenReqs = 1
          /\ ~apiKey => (mSess[s].tokenReqs = 0 /\ mSess[s].conn = 0)
          /\ mSess[s].tokenReqs = 1 =>
                mSess[s].cred = IF clientId THEN "managed" ELSE "default"
          /\ mSess[s].tokenReqs = 0 =>
                (mSess[s].cred = "none" /\ mSess[s].token = 0)
          /\ \A t \in Sessions \ {s} :
                mSess[s].token # 0 => mSess[s].token # mSess[t].token
    /\ \A c \in ConnIds :
          /\ mConns[c].auth # 0
          /\ mConns[c].auth = mSess[mConns[c].owner].token

\* With a client id configured, session 1 has returned after its
\* connection was opened with its own managed-identity token, and session 2
\* has since opened a connection with a token of its own.
C26_Witness ==
    /\ clientId
    /\ mSess[1].pc = "done"
    /\ mSess[1].cred = "managed"
    /\ mSess[1].token # 0
    /\ mSess[2].pc = "relay"
    /\ mSess[2].cred = "managed"
    /\ mSess[2].token # 0
    /\ mSess[2].token # mSess[1].token
    /\ Cardinality(ConnIds) = 2
    /\ mConns[mSess[1].conn].auth = mSess[1].token
    /\ mConns[mSess[2].conn].auth = mSess[2].token

\* ----------------------------------------------------------------- builders
\* The builders of the handler called on their own, as its unit tests call
\* them: _build_azure_url, _build_session_config, _add_local_agent_config,
\* _send_initial_config, and the connector's token branch.  Dicts and lists
\* are objects in memory: a dict display creates a new object, a name of a
\* module-level list refers to the one object it names.

handlerVars == <<cfgVars, pc, azure_ws, connVars, closeCalls, upState,
                 azureFrames, toClient, clientCalls, clientEnv, upEnv, taskVars, multiVars>>

PInit == MultiInit /\ SingleIdle /\ apiKey /\ PureIdle /\ SideIdle /\ config \in Configs

\* The session dict kept in a module-level template and handed out again by
\* every build.
FreshRef_Template(h) ==
    LET sessions == {r \in 1..Len(h) : h[r].kind = "session"}
    IN IF sessions = {} THEN Len(h) + 1
       ELSE CHOOSE r \in sessions : \A q \in sessions : r <= q

\* lines 202-227: the dict display creates a new dict on every call.
FreshRef(h) == Len(h) + 1

\* The session dict of lines 204-226 as an object: "modalities" holds a
\* reference to the module-level list, the other values are new literals.
NewSessionObject ==
    [kind |-> "session",
     val |-> [BuildSessionConfig.session EXCEPT !.modalities = ModalitiesRef]]

\* The memory after _build_session_config has run: the session dict at
\* FreshRef, then the message dict that refers to it.
HeapAfterBuild(h) ==
    LET sref == FreshRef(h)
        h1 == IF sref > Len(h) THEN Append(h, NewSessionObject) ELSE h
    IN Append(h1, [kind |-> "message",
                   val |-> [type |-> BuildSessionConfig.type, session |-> sref]])

\* The config message an object reference stands for, references followed.
Deref(h, m) ==
    LET session == h[h[m].val.session].val
    IN [type |-> h[m].val.type,
        session |-> [k \in DOMAIN session |->
                        IF k = "modalities" THEN h[session[k]].val
                        ELSE session[k]]]

\* json.dumps of a config message: the text is kept as the value it encodes
\* at the time of the call.
JsonDumps(h, m) == [text |-> Deref(h, m)]

\* _build_azure_url called for a session with agent a.
P_BuildAzureUrl ==
    \E a \in UrlAgents, client_request_id \in RequestIds :
       /\ urlAgent' = a
       /\ azure_url' = BuildAzureUrl(config, client_request_id)
       /\ UNCHANGED <<sideVars, handlerVars, config, heap, built, sentJson, tokenRuns>>

\* _build_session_config called.
P_BuildSessionConfig ==
    /\ Len(built) < MaxBuilds
    /\ heap' = HeapAfterBuild(heap)
    /\ built' = Append(built, [msg |-> Len(heap'), agent |-> NoAgent])
    /\ UNCHANGED <<sideVars, handlerVars, config, urlAgent, azure_url, sentJson, tokenRuns>>

\* _add_local_agent_config called on a built config message: the session
\* dict of the message is changed in place.
P_AddLocalAgentConfig ==
    \E i \in 1..Len(built), a \in Agents \ {NoAgent} :
       LET sref == heap[built[i].msg].val.session
           session == AddLocalAgentConfig([session |-> heap[sref].val], a).session
       IN /\ heap' = [heap EXCEPT ![sref].val = session]
          /\ built' = [built EXCEPT ![i].agent = a]
          /\ UNCHANGED <<sideVars, handlerVars, config, urlAgent, azure_url, sentJson,
                         tokenRuns>>

\* _send_initial_config, lines 173-181: a config message is built, encoded
\* and sent.
P_SendInitialConfig ==
    /\ Len(built) < MaxBuilds
    /\ heap' = HeapAfterBuild(heap)
    /\ built' = Append(built, [msg |-> Len(heap'), agent |-> NoAgent])
    /\ sentJson' = Append(sentJson, JsonDumps(heap', Len(heap')))
    /\ UNCHANGED <<sideVars, handlerVars, config, urlAgent, azure_url, tokenRuns>>

\* The connector's token branch run twice with the same configuration and
\* URL and two tokens.
P_ConnectorRuns ==
    /\ azure_url # NoUrl
    /\ \E t1 \in Tokens : \E t2 \in Tokens \ {t1} :
         tokenRuns' = [tokens |-> <<t1, t2>>,
                       out |-> <<ConnectorOutput(clientId, t1, azure_url),
                                 ConnectorOutput(clientId, t2, azure_url)>>]
    /\ UNCHANGED <<sideVars, handlerVars, config, urlAgent, azure_url, heap, built,
                   sentJson>>

PNext ==
    \/ P_BuildAzureUrl
    \/ P_BuildSessionConfig
    \/ P_AddLocalAgentConfig
    \/ P_SendInitialConfig
    \/ P_ConnectorRuns

PureSpec == PInit /\ [][PNext]_vars

PTypeOK ==
    /\ config \in Configs
    /\ urlAgent \in UrlAgents
    /\ Len(built) <= MaxBuilds
    /\ Len(sentJson) <= Len(built)
    /\ \A i \in 1..Len(built) :
          /\ heap[built[i].msg].kind = "message"
          /\ heap[heap[built[i].msg].val.session].kind = "session"
    /\ heap[ModalitiesRef] = InitHeap[1]

\* The config message of the i-th build, in memory h.
BuiltConfig(h, blt, i) == Deref(h, blt[i].msg)

\* The keys of the session object every config carries.
BaselineKeys ==
    {"modalities", "turn_detection", "input_audio_noise_reduction",
     "input_audio_echo_cancellation", "voice"}

\* The baseline of a config message: text and audio modalities, semantic
\* VAD turn detection with its threshold, padding, silence duration, filler
\* word removal and end-of-utterance detection (model, threshold, timeout),
\* noise reduction, echo cancellation, and a voice with name, type and
\* temperature 0.
HasBaseline(c) ==
    /\ c.type = SESSION_UPDATE_TYPE
    /\ BaselineKeys \subseteq DOMAIN c.session
    /\ c.session.modalities = <<"text", "audio">>
    /\ {"type", "threshold", "prefix_padding_ms", "silence_duration_ms",
        "remove_filler_words", "end_of_utterance_detection"}
          \subseteq DOMAIN c.session.turn_detection
    /\ c.session.turn_detection.type = "azure_semantic_vad"
    /\ {"model", "threshold", "timeout"}
          \subseteq DOMAIN c.session.turn_detection.end_of_utterance_detection
    /\ "type" \in DOMAIN c.session.input_audio_noise_reduction
    /\ "type" \in DOMAIN c.session.input_audio_echo_cancellation
    /\ {"name", "type", "temperature"} \subseteq DOMAIN c.session.voice
    /\ c.session.voice.temperature = 0

\* C22: every config message built, with or without the agent fields added,
\* has type session.update and the whole baseline; the baseline values are
\* the same in every config (they are constants), and adding the agent
\* fields to a config removes and changes none of them.
C22_BaselineAlwaysPresent ==
    [][\A i \in 1..Len(built') :
          /\ HasBaseline(BuiltConfig(heap', built', i))
          /\ \A k \in BaselineKeys :
                BuiltConfig(heap', built', i).session[k] =
                   BuiltConfig(heap', built', 1).session[k]
          /\ i <= Len(built) =>
                \A k \in BaselineKeys :
                   BuiltConfig(heap', built', i).session[k] =
                      BuiltConfig(heap, built, i).session[k]]_vars

\* Two configs were built; the agent without a model of its own was added to
\* the first, which carries the default model, and the second has no agent
\* field.
C22_Witness ==
    /\ Len(built) = 2
    /\ built[1].agent # NoAgent
    /\ "model" \notin DOMAIN built[1].agent
    /\ BuiltConfig(heap, built, 1).session.model = MODEL_DEPLOYMENT_NAME
    /\ BuiltConfig(heap, built, 1).session.instructions = "Test instructions"
    /\ built[2].agent = NoAgent
    /\ DOMAIN BuiltConfig(heap, built, 2).session = BaselineKeys

\* C30: building the session config is pure and deterministic: a call of
\* _build_session_config, _add_local_agent_config or _send_initial_config
\* changes no configuration value, not the module-level DEFAULT_MODALITIES
\* and no JSON text already sent; a build changes no object that existed
\* before it and no config built before it; adding agent fields to one
\* config changes no other config; and any two configs built with the same
\* input are equal.
C30_BuildIsPure ==
    [][/\ config' = config
       /\ heap'[ModalitiesRef] = heap[ModalitiesRef]
       /\ \A k \in 1..Len(sentJson) : sentJson'[k] = sentJson[k]
       /\ Len(built') > Len(built) =>
             /\ \A r \in 1..Len(heap) : heap'[r] = heap[r]
             /\ BuiltConfig(heap', built', Len(built')) = BuildSessionConfig
       /\ \A i \in 1..Len(built) :
             built'[i].agent = built[i].agent =>
                BuiltConfig(heap', built', i) = BuiltConfig(heap, built, i)
       /\ \A i, j \in 1..Len(built') :
             built'[i].agent = built'[j].agent =>
                BuiltConfig(heap', built', i) = BuiltConfig(heap', built', j)]_vars

\* The first config was sent and then given the fields of an agent, the
\* second was built later and given the fields of the same agent: the two
\* are equal, and the text sent is still the one without agent fields.
C30_Witness ==
    /\ Len(built) = 2
    /\ Len(sentJson) = 1
    /\ built[1].agent # NoAgent
    /\ built[2].agent = built[1].agent
    /\ built[1].msg # built[2].msg
    /\ BuiltConfig(heap, built, 1) = BuiltConfig(heap, built, 2)
    /\ sentJson[1].text = BuildSessionConfig
    /\ sentJson[1].text # BuiltConfig(heap, built, 1)

\* C23: for a remote agent with a remote agent id, the URL built for the
\* upstream connection has agent-id=<that id> and the project name, and has
\* no model parameter.
C23_RemoteAgentUrl ==
    (IsRemote(urlAgent) /\ azure_url # NoUrl) =>
        /\ HasParam(azure_url, "agent-id", urlAgent.id)
        /\ HasParam(azure_url, "agent-project-name", config.azure_ai_project_name)
        /\ ~HasKey(azure_url, "model")

\* C24: for an agent that is not a remote agent, the URL built for the
\* upstream connection has model=<the agent's model, or the configured
\* default model when the agent has none> and has no agent-id parameter.
C24_LocalAgentUrl ==
    (urlAgent # NoAgent /\ ~IsRemote(urlAgent) /\ azure_url # NoUrl) =>
        /\ HasParam(azure_url, "model", AgentModel(urlAgent))
        /\ ~HasKey(azure_url, "agent-id")

\* C25: when a static default remote agent id is configured, the URL built
\* for the upstream connection has agent-id=<the configured id> and the
\* project-name parameter, whatever the agent profile of the session is.
C25_StaticAgentUrl ==
    (config.agent_id # "" /\ azure_url # NoUrl) =>
        /\ HasParam(azure_url, "agent-id", config.agent_id)
        /\ HasKey(azure_url, "agent-project-name")

\* C27: the full bearer token is never printed or logged: no line of the
\* connector's output is the token, and two runs that differ only in the
\* token write the same output.
C27_TokenNeverWritten ==
    tokenRuns # NoRuns =>
        /\ \A r \in 1..2 : \A k \in 1..Len(tokenRuns.out[r]) :
              tokenRuns.out[r][k].text # tokenRuns.tokens[r]
        /\ tokenRuns.out[1] = tokenRuns.out[2]

\* C37: when no static default agent id is configured and no agent profile
\* is supplied, the URL built for the upstream connection is exactly the
\* base URL (host, path, api-version, x-ms-client-request-id), with no agent
\* parameter and no model parameter; and in every case the URL never has both
\* an agent parameter and a model parameter.
C37_BaseUrlWithoutAgent ==
    azure_url # NoUrl =>
        /\ (config.agent_id = "" /\ urlAgent = NoAgent) =>
              \E client_request_id \in RequestIds :
                  azure_url = BuildBaseAzureUrl(config, client_request_id)
        /\ ~(/\ HasKey(azure_url, "agent-id") \/ HasKey(azure_url, "agent-name")
             /\ HasKey(azure_url, "model"))

\* ------------------------------------------------- the configuration object
\* The configuration alone: the process is started in some environment, the
\* module is imported, and callers read the configuration and write into
\* the dicts as_dict gave them.

KInit ==
    /\ MultiInit /\ SingleIdle /\ apiKey /\ clientId /\ PureIdle /\ config = PlainConfig
    /\ PoolIdle
    /\ environ \in Envs
    /\ ConfIdle

\* line 94, config = Config(): _load_config fills _config, or int() raises
\* and the import fails.
K_Construct ==
    /\ confState = "unloaded"
    /\ IF IsDecimal(PortText(environ))
         THEN /\ dicts' = <<LoadConfig(environ)>>
              /\ confState' = "ready"
         ELSE /\ confState' = "error"
              /\ UNCHANGED dicts
    /\ UNCHANGED <<pureVars, multiVars, singleVars, poolVars, environ, returned, lastRead>>

\* config[key].
K_GetItem ==
    /\ confState = "ready"
    /\ \E key \in QueryKeys :
         lastRead' = [op |-> "getitem", key |-> key, default |-> None,
                      result |-> GetItem(dicts[ConfigRef], key)]
    /\ UNCHANGED <<pureVars, multiVars, singleVars, poolVars, environ, confState, dicts,
                   returned>>

\* config.get(key, default).
K_Get ==
    /\ confState = "ready"
    /\ \E key \in QueryKeys, default \in QueryDefaults :
         lastRead' = [op |-> "get", key |-> key, default |-> default,
                      result |-> Get(dicts[ConfigRef], key, default)]
    /\ UNCHANGED <<pureVars, multiVars, singleVars, poolVars, environ, confState, dicts,
                   returned>>

\* config.as_dict.
K_AsDict ==
    /\ confState = "ready"
    /\ Len(dicts) <= MaxCopies
    /\ dicts' = AsDictObjects(dicts)
    /\ returned' = returned \cup {AsDictRef(dicts)}
    /\ UNCHANGED <<pureVars, multiVars, singleVars, poolVars, environ, confState, lastRead>>

\* A caller writes into, or deletes from, a dict that as_dict returned;
\* lastRead keeps the last read made since.
K_ModifyReturned ==
    /\ \E r \in returned, key \in {"port", "nonexistent_key"} :
         \/ dicts' = [dicts EXCEPT ![r] = DictSet(@, key, WrittenValue)]
         \/ /\ key \in DOMAIN dicts[r]
            /\ dicts' = [dicts EXCEPT ![r] = DictDel(@, key)]
    /\ lastRead' = NoRead
    /\ UNCHANGED <<pureVars, multiVars, singleVars, poolVars, environ, confState, returned>>

KNext ==
    \/ K_Construct
    \/ K_GetItem
    \/ K_Get
    \/ K_AsDict
    \/ K_ModifyReturned

ConfigSpec == KInit /\ [][KNext]_vars

KTypeOK ==
    /\ confState \in {"unloaded", "ready", "error"}
    /\ environ \in Envs
    /\ returned \subseteq 1..Len(dicts)
    /\ lastRead.op \in {"none", "getitem", "get"}

\* The configuration keys of the model.
ConfigKeys == {"azure_ai_region", "use_azure_ai_agents", "port", "host",
               "api_version", "agent_name"}

\* C31: the configuration is immutable after construction: no step of a
\* caller (a read through config[key] or config.get, as_dict, or a write
\* into a dict that as_dict returned) changes the stored configuration or
\* any value read through config[key] or config.get(key), and as_dict never
\* hands out the stored dict itself.
C31_ConfigImmutable ==
    [][confState = "ready" =>
          /\ dicts'[ConfigRef] = dicts[ConfigRef]
          /\ \A key \in QueryKeys :
                /\ GetItem(dicts'[ConfigRef], key) = GetItem(dicts[ConfigRef], key)
                /\ Get(dicts'[ConfigRef], key, None) = Get(dicts[ConfigRef], key, None)
          /\ ConfigRef \notin returned']_vars

\* The port was overwritten in one returned dict and deleted from another,
\* and config["port"] read afterwards still gives the default port.
C31_Witness ==
    /\ confState = "ready"
    /\ environ.PORT = None
    /\ \E r \in returned : "port" \in DOMAIN dicts[r] /\ dicts[r]["port"] = WrittenValue
    /\ \E r \in returned : "port" \notin DOMAIN dicts[r]
    /\ lastRead = [op |-> "getitem", key |-> "port", default |-> None,
                   result |-> PyInt(8000)]

\* C32: a variable set in the environment overrides the built-in default
\* and an unset one yields the default (port 8000, host 0.0.0.0, region
\* swedencentral); config.get(key, d) is d for a key that is not a
\* configuration key and config[key] for one that is; config[key] for an
\* unknown key is None, not an error.
C32_ConfigLookup ==
    confState = "ready" =>
        LET c == dicts[ConfigRef] IN
        /\ DOMAIN c = ConfigKeys
        /\ environ.PORT = None => c["port"] = PyInt(8000)
        /\ environ.PORT = Msg(<<"9", "0", "0", "0">>) => c["port"] = PyInt(9000)
        /\ c["host"] = IF environ.HOST = None THEN PyStr("0.0.0.0")
                        ELSE PyStr(environ.HOST[1])
        /\ c["azure_ai_region"] = IF environ.AZURE_AI_REGION = None
                                   THEN PyStr("swedencentral")
                                   ELSE PyStr(environ.AZURE_AI_REGION[1])
        /\ c["agent_name"] = IF environ.AGENT_NAME = None THEN None
                              ELSE PyStr(environ.AGENT_NAME[1])
        /\ c["use_azure_ai_agents"] = PyBool(environ.USE_AZURE_AI_AGENTS # None)
        /\ lastRead.op = "get" =>
              /\ lastRead.key \notin ConfigKeys => lastRead.result = lastRead.default
              /\ lastRead.key \in ConfigKeys =>
                    /\ lastRead.result = c[lastRead.key]
                    /\ lastRead.result = GetItem(c, lastRead.key)
        /\ lastRead.op = "getitem" =>
              lastRead.result = IF lastRead.key \in ConfigKeys
                                  THEN c[lastRead.key] ELSE None

\* PORT and HOST are set, the region is not, and get was called with a key
\* that is not a configuration key.
C32_Witness ==
    /\ confState = "ready"
    /\ environ.PORT = Msg(<<"9", "0", "0", "0">>)
    /\ environ.HOST = Msg("localhost")
    /\ environ.AZURE_AI_REGION = None
    /\ dicts[ConfigRef]["port"] = PyInt(9000)
    /\ dicts[ConfigRef]["azure_ai_region"] = PyStr("swedencentral")
    /\ lastRead = [op |-> "get", key |-> "nonexistent_key",
                   default |-> PyStr("default"), result |-> PyStr("default")]

\* ---------------------------------------------------------- the worker pool
\* Several sessions in their relay, with the executor their blocking calls
\* on the client connection go to: run_in_executor(None, ...) at lines 261
\* and 281 submits the call to the default executor of the event loop, a
\* pool of a bounded number of threads with one queue, shared by every
\* session of the loop.  A job is the call of one session.

\* The pool has as many threads as there are sessions to serve.
PoolSize == MaxSessions

ReceiveJob(s) == [s |-> s, op |-> "receive"]
SendJob(s) == [s |-> s, op |-> "send"]

WInit ==
    /\ MultiInit /\ SingleIdle /\ apiKey /\ clientId /\ PureIdle /\ config = PlainConfig
    /\ environ = NoEnv /\ ConfIdle
    /\ PoolIdle

\* lines 243-248 and 260-264: the two tasks of session s start; the c2a task
\* submits client_ws.receive, the a2c task waits for an upstream message.
W_RelayStart(s) ==
    /\ wTask[s].c2a = "none"
    /\ wTask' = [wTask EXCEPT ![s] = [c2a |-> "await_recv", a2c |-> "await_up"]]
    /\ wQueue' = Append(wQueue, ReceiveJob(s))
    /\ UNCHANGED <<pureVars, multiVars, singleVars, confVars, wRunning, wClientIn, wRx,
                   wUp, wTaken, wDelivered>>

\* A free thread of the pool takes the oldest submitted call.
W_WorkerTake ==
    /\ wQueue # <<>>
    /\ Cardinality(wRunning) < PoolSize
    /\ wRunning' = wRunning \cup {Head(wQueue)}
    /\ wQueue' = Tail(wQueue)
    /\ UNCHANGED <<pureVars, multiVars, singleVars, confVars, wTask, wClientIn, wRx, wUp,
                   wTaken, wDelivered>>

\* The client of session s sends a message.
W_ClientSends(s) ==
    /\ wClientIn[s] < MaxRelayed
    /\ wClientIn' = [wClientIn EXCEPT ![s] = @ + 1]
    /\ UNCHANGED <<pureVars, multiVars, singleVars, confVars, wTask, wQueue, wRunning, wRx,
                   wUp, wTaken, wDelivered>>

\* lines 260-268: client_ws.receive, blocked in its thread until the client
\* has sent something, returns; the thread is free again, the c2a task
\* forwards the message with azure_ws.send and submits the next receive.
W_ReceiveReturns(s) ==
    /\ ReceiveJob(s) \in wRunning
    /\ wRx[s] < wClientIn[s]
    /\ wRx' = [wRx EXCEPT ![s] = @ + 1]
    /\ wRunning' = wRunning \ {ReceiveJob(s)}
    /\ wQueue' = Append(wQueue, ReceiveJob(s))
    /\ UNCHANGED <<pureVars, multiVars, singleVars, confVars, wTask, wClientIn, wUp,
                   wTaken, wDelivered>>

\* The upstream of session s sends a message.
W_UpstreamSends(s) ==
    /\ wTask[s].a2c # "none"
    /\ wUp[s] < MaxRelayed
    /\ wUp' = [wUp EXCEPT ![s] = @ + 1]
    /\ UNCHANGED <<pureVars, multiVars, singleVars, confVars, wTask, wQueue, wRunning,
                   wClientIn, wRx, wTaken, wDelivered>>

\* lines 279-285: the a2c task of session s receives the next upstream
\* message and submits client_ws.send(message).
W_A2CRecv(s) ==
    /\ wTask[s].a2c = "await_up"
    /\ wTaken[s] < wUp[s]
    /\ wTaken' = [wTaken EXCEPT ![s] = @ + 1]
    /\ wTask' = [wTask EXCEPT ![s].a2c = "await_send"]
    /\ wQueue' = Append(wQueue, SendJob(s))
    /\ UNCHANGED <<pureVars, multiVars, singleVars, confVars, wRunning, wClientIn, wRx,
                   wUp, wDelivered>>

\* lines 281-285: client_ws.send runs in its thread, the client accepts the
\* message, and the a2c task goes on with its loop.
W_SendRuns(s) ==
    /\ SendJob(s) \in wRunning
    /\ wRunning' = wRunning \ {SendJob(s)}
    /\ wDelivered' = [wDelivered EXCEPT ![s] = @ + 1]
    /\ wTask' = [wTask EXCEPT ![s].a2c = "await_up"]
    /\ UNCHANGED <<pureVars, multiVars, singleVars, confVars, wQueue, wClientIn, wRx, wUp,
                   wTaken>>

WNext ==
    \/ \E s \in Sessions :
         \/ W_RelayStart(s)
         \/ W_ClientSends(s)
         \/ W_ReceiveReturns(s)
         \/ W_UpstreamSends(s)
         \/ W_A2CRecv(s)
         \/ W_SendRuns(s)
    \/ W_WorkerTake

\* The event loop runs every task that can go on and the pool runs every
\* call it has a free thread for; the clients and the upstreams are under no
\* obligation to send.
PoolSpec ==
    /\ WInit
    /\ [][WNext]_vars
    /\ WF_vars(W_WorkerTake)
    /\ \A s \in Sessions :
         /\ WF_vars(W_RelayStart(s))
         /\ WF_vars(W_ReceiveReturns(s))
         /\ WF_vars(W_A2CRecv(s))
         /\ WF_vars(W_SendRuns(s))

WTypeOK ==
    /\ Cardinality(wRunning) <= PoolSize
    /\ \A s \in Sessions :
         /\ wRx[s] <= wClientIn[s]
         /\ wDelivered[s] <= wTaken[s]
         /\ wTaken[s] <= wUp[s]

\* C34: with the pool shared by all sessions, an upstream message received
\* for a session is eventually delivered to that session's client, which
\* accepts it, whatever the other sessions do, also when they are all
\* blocked in a receive on an idle client.
C34_NoStarvation ==
    \A s \in Sessions : (wTaken[s] > wDelivered[s]) ~> (wDelivered[s] = wTaken[s])

====
